---- MODULE Spec2Model ----
(***************************************************************************)
(* The asynchronous delivery worker of velo (formatter.go, second half)    *)
(* and the Logger handles that share it (logger.go, sampler file).         *)
(*                                                                         *)
(* A record is a formatted buffer, identified by a number 1..MaxBufs in    *)
(* the order the buffers are handed to worker.submit.  Caller goroutines   *)
(* (Threads) log, sync, derive handles and close them; one worker          *)
(* goroutine runs worker.run.  The destination (w.output) is a sequence of *)
(* records; the bufio.Writer in front of it (w.bw) holds at most BwCap     *)
(* records before it writes through on its own.                            *)
(***************************************************************************)
EXTENDS Integers, Sequences, FiniteSets, TLC

\* ---------------------------------------------------------------- bounds
MaxBufs == 2
QueueCap == 1
BwCap == 1
MaxHandles == 2
MaxChecks == 6
MaxTime == 3
MaxPoolBufs == 3
MaxLen == 3
MaxLoose == 3
MaxTyped == 1
MaxEntries == 1
MaxItems == 2

Threads == {"t1", "t2"}
Actors == Threads \cup {"w"}
Strategies == {"sync", "drop", "block"}
Errs == {"E1"}
Prefixes == {"", "p"}
NoBuf == 0
NoThread == "none"

\* level.go
DebugLevel == 0 - 1
InfoLevel == 0
WarnLevel == 1
ErrorLevel == 2
DPanicLevel == 3
PanicLevel == 4
FatalLevel == 5
noLevel == 100
\* the levels the model's calls and SetLevel draw from
Levels == {DebugLevel, InfoLevel, PanicLevel, FatalLevel, noLevel}
Formatters == {"text", "json"}
\* a configuration snapshot: the value l.config points to
Cfg(p, f, r) == [prefix |-> p, formatter |-> f, reportTimestamp |-> r]
NoCfg == Cfg("", "none", FALSE)
\* the zero time.Time a log call passes on when cfg.reportTimestamp is off:
\* its UnixNano() lies before every deadline
ZeroTime == 0 - 1
\* sampler file: _minLevel, _maxLevel and the levels that have counters
MinLevel == DebugLevel
MaxLevel == FatalLevel
Sampled == {l \in Levels : l >= MinLevel /\ l <= MaxLevel}
\* s.tick, in clock units
Tick == 2
Decisions == {"LogDropped", "LogSampled"}
\* buffer.go, in units of 32 KiB (a capacity is rounded up to the unit): the
\* capacity bufPool.New gives a buffer (4096 bytes) and the ceiling of putBuffer
NewCap == 1
PoolCeiling == 2
NoBuffer == [st |-> "unborn", len |-> 0, cap |-> 0, holder |-> NoThread]
\* formatter output is a sequence of tokens <<key, value>>; the punctuation of
\* the JSON encoders are tokens of their own
LBrace == <<"{", "">>
RBrace == <<"}", "">>
Comma == <<",", "">>
Newline == <<"nl", "">>
\* loosely-typed items that are error values, typed fields of ErrorType
ErrValues == {"lerr", "cerr"}
ErrFields == {"lterr", "xterr", "cterr"}
\* the zero Logger of the encoder specifications and the zero Entry of _entryPool.New
NoLogger == [fields |-> <<>>, typedFields |-> <<>>, preEncodedJSON |-> <<>>,
             formatter |-> "text", prefix |-> "", reportTimestamp |-> FALSE,
             reportStacktrace |-> FALSE, reportCaller |-> FALSE]
NewEntry == [Time |-> FALSE, Fields |-> <<>>, TypedFields |-> <<>>, PreEncodedJSON |-> <<>>,
             Stack |-> <<>>, Message |-> "", Prefix |-> "", Caller |-> "",
             Formatter |-> "text", Level |-> InfoLevel]
NoRec == [path |-> "none"]

VARIABLES
  strategy,   \* w.strategy
  queue,      \* w.queue: the buffered channel, a sequence of records
  sendq,      \* goroutines parked in the blocking send w.queue <- b, in arrival order
  enq,        \* records that have entered w.queue so far
  bw,         \* w.bw: records held by the bufio.Writer, not yet written through
  bwErr,      \* the bufio.Writer's sticky error
  output,     \* w.output: what the destination has accumulated
  outErr,     \* the error the destination answers a Write with ("nil": it accepts)
  delivered,  \* records covered by a Write call on the destination that returned nil
  inWrite,    \* per goroutine: is it inside w.output.Write ("no", "yes", "raced")
  stopChan,   \* w.stopChan is closed
  flushed,    \* w.flushed is closed
  refCount,   \* w.refCount
  closed,     \* Logger.closed of each handle
  nHandles,   \* handles created so far: 1..nHandles
  prefix,     \* the prefix in each handle's configuration snapshot
  workers,    \* the registry _workers
  wpc,        \* the worker goroutine's position in run
  wmode,      \* which select case the worker is serving
  wcur,       \* the record the worker is writing
  wreq,       \* the goroutine whose errChan the worker received
  errChan,    \* each caller's errChan (capacity 1)
  pc,         \* each caller's position
  cur,        \* the record a caller is submitting
  hcur,       \* the handle a caller is closing
  ret,        \* the value sync is returning to the caller
  snap,       \* the records whose submit had returned when the caller invoked sync
  nextBuf,    \* the next record number
  owner,      \* which caller submitted each record
  released,   \* records whose buffer went back through putBuffer (0 - b: b went back again)
  dropped,    \* records released unwritten by the drop policy
  stopSnap,   \* the queue when the worker took the stop case
  lastErr,    \* w.lastErr
  diag,       \* diagnostics printed to os.Stderr by handleError
  level,      \* levelState.val of each levelState allocated (one per NewWithOptions)
  levelRef,   \* Logger.level of each handle: the levelState it points to
  formatter,  \* cfg.formatter in each handle's configuration snapshot
  reportTimestamp, \* cfg.reportTimestamp in each handle's configuration snapshot
  sampled,    \* per handle: l.sampler != nil
  lastDerive, \* the last derivation: <<the handle it was called on, the handle it returned>>
  mu,         \* the goroutine holding _workersMu
  cont,       \* per caller: where it goes on when the function it is in returns
  lh,         \* the handle of the log call or setter a caller is in
  llvl,       \* the level of the log call a caller is in
  cfgSnap,    \* cfg := l.config.Load() of the log call or setter a caller is in
  seen,       \* the configurations lh has had since the caller's log call began
  fmtd,       \* what the caller's log call last formatted: the attributes it used
  counter,    \* counter.counter of the bucket of each level (one message)
  resetAt,    \* counter.resetAt of the bucket of each level
  now,        \* the wall clock
  hooks,      \* the calls of s.hook in order: level and decision, with the check's time and count
  sT,         \* the time a caller's check was given
  sResetAfter,\* resetAfter := c.resetAt.Load() of a caller's IncCheckReset
  sN,         \* the count IncCheckReset returned to a caller's check
  sret,       \* the value check returned to a caller
  first,      \* s.first
  thereafter, \* s.thereafter
  bufs,       \* every *buffer bufPool.New has made: where it is, len(b.B), cap(b.B)
  outMu,      \* the goroutine holding syncWriter.mu of a synchronous logger
  lg,         \* a Logger as the encoders see it: its fields and its configuration snapshot
  entryPool,  \* the Entry values _entryPool holds
  rec         \* the last log call on lg: its arguments and what each encoder makes of them

chanVars == <<queue, sendq, enq>>
bufioVars == <<bw, bwErr>>
destVars == <<output, delivered, inWrite>>
lifeVars == <<stopChan, flushed, workers>>
handleVars == <<refCount, closed, nHandles, prefix>>
workerVars == <<wpc, wmode, wcur, wreq>>
callerVars == <<pc, cur, hcur, ret, snap, errChan>>
bufVars == <<nextBuf, owner>>
poolVars == <<released, dropped>>
errVars == <<lastErr, diag>>
cfgVars == <<level, levelRef, formatter, reportTimestamp, sampled, lastDerive>>
logVars == <<mu, cont, lh, llvl, cfgSnap, seen, fmtd>>
samplerVars == <<counter, resetAt, now, hooks, sT, sResetAfter, sN, sret, first, thereafter>>
extVars == <<cfgVars, logVars, samplerVars>>
encVars == <<lg, entryPool, rec>>
pureVars == <<bufs, outMu, encVars>>
\* everything but the pools and the encoders
sysVars == <<strategy, chanVars, bufioVars, destVars, outErr, lifeVars, handleVars,
             workerVars, callerVars, bufVars, poolVars, stopSnap, errVars, extVars>>

vars == <<sysVars, pureVars>>

Range(s) == {s[i] : i \in 1..Len(s)}

\* newWorker and the parts of NewWithOptions that concern the worker
InitWorker ==
  /\ strategy \in Strategies
  /\ queue = <<>> /\ sendq = <<>> /\ enq = {}
  /\ bw = <<>> /\ bwErr = "nil"
  /\ output = <<>> /\ outErr = "nil" /\ delivered = {}
  /\ inWrite = [a \in Actors |-> "no"]
  /\ stopChan = FALSE /\ flushed = FALSE
  /\ refCount = 1
  /\ closed = [h \in 1..MaxHandles |-> FALSE]
  /\ nHandles = 1
  /\ prefix = [h \in 1..MaxHandles |-> ""]
  /\ workers = <<"w">>
  /\ wpc = "select" /\ wmode = "none" /\ wcur = NoBuf /\ wreq = NoThread
  /\ errChan = [t \in Threads |-> "none"]
  /\ pc = [t \in Threads |-> "idle"]
  /\ cur = [t \in Threads |-> NoBuf]
  /\ hcur = [t \in Threads |-> 0]
  /\ ret = [t \in Threads |-> "none"]
  /\ snap = [t \in Threads |-> {}]
  /\ nextBuf = 1
  /\ owner = [b \in 1..MaxBufs |-> NoThread]
  /\ released = {} /\ dropped = {}
  /\ stopSnap = {}
  /\ lastErr = "nil" /\ diag = 0

\* NewWithOptions with the zero Options (InfoLevel, no prefix, the text
\* formatter, no timestamp), no sampler attached, nobody inside a call
InitLogger ==
  /\ level = [i \in 1..MaxHandles |-> InfoLevel]
  /\ levelRef = [h \in 1..MaxHandles |-> 1]
  /\ formatter = [h \in 1..MaxHandles |-> "text"]
  /\ reportTimestamp = [h \in 1..MaxHandles |-> FALSE]
  /\ sampled = [h \in 1..MaxHandles |-> FALSE]
  /\ lastDerive = <<0, 0>>
  /\ mu = NoThread
  /\ cont = [t \in Threads |-> "idle"]
  /\ lh = [t \in Threads |-> 0]
  /\ llvl = [t \in Threads |-> InfoLevel]
  /\ cfgSnap = [t \in Threads |-> NoCfg]
  /\ seen = [t \in Threads |-> {}]
  /\ fmtd = [t \in Threads |-> NoCfg]
  /\ counter = [l \in Sampled |-> 0]
  /\ resetAt = [l \in Sampled |-> 0]
  /\ now = 0
  /\ hooks = <<>>
  /\ sT = [t \in Threads |-> 0]
  /\ sResetAfter = [t \in Threads |-> 0]
  /\ sN = [t \in Threads |-> 0]
  /\ sret = [t \in Threads |-> TRUE]
  /\ first = 0 /\ thereafter = 0

\* the pools before their first use
InitPure ==
  /\ bufs = [b \in 1..MaxPoolBufs |-> NoBuffer]
  /\ outMu = NoThread
  /\ lg = NoLogger
  /\ entryPool = {}
  /\ rec = NoRec

Init == InitWorker /\ InitLogger /\ InitPure

\* NewWithOptions with Async off: l.worker is nil, l.out wraps the destination
InitSyncLogger ==
  /\ strategy = "drop"
  /\ queue = <<>> /\ sendq = <<>> /\ enq = {}
  /\ bw = <<>> /\ bwErr = "nil"
  /\ output = <<>> /\ outErr = "nil" /\ delivered = {}
  /\ inWrite = [a \in Actors |-> "no"]
  /\ stopChan = FALSE /\ flushed = FALSE
  /\ refCount = 0
  /\ closed = [h \in 1..MaxHandles |-> FALSE]
  /\ nHandles = 1
  /\ prefix = [h \in 1..MaxHandles |-> ""]
  /\ workers = <<>>
  /\ wpc = "absent" /\ wmode = "none" /\ wcur = NoBuf /\ wreq = NoThread
  /\ errChan = [t \in Threads |-> "none"]
  /\ pc = [t \in Threads |-> "sync_idle"]
  /\ cur = [t \in Threads |-> NoBuf]
  /\ hcur = [t \in Threads |-> 0]
  /\ ret = [t \in Threads |-> "none"]
  /\ snap = [t \in Threads |-> {}]
  /\ nextBuf = 1
  /\ owner = [b \in 1..MaxBufs |-> NoThread]
  /\ released = {} /\ dropped = {}
  /\ stopSnap = {}
  /\ lastErr = "nil" /\ diag = 0
  /\ InitLogger
  /\ InitPure


\* ------------------------------------------------------------ destination
\* A goroutine enters w.output.Write.  Whoever is inside at the same time is
\* marked: the io.Writer is not required to be safe for concurrent calls.
BeginWrite(a) ==
  [x \in Actors |->
     IF x = a
       THEN (IF \E y \in Actors \ {a} : inWrite[y] # "no" THEN "raced" ELSE "yes")
       ELSE (IF inWrite[x] # "no" THEN "raced" ELSE "no")]

EndWrite(a) == [inWrite EXCEPT ![a] = "no"]

\* What the destination holds after a successful Write of recs by a.  A Write
\* that overlapped another one is a data race on the destination: its bytes
\* may land or may be overwritten.
Outcomes(a, recs) ==
  IF inWrite[a] = "raced" THEN {output \o recs, output} ELSE {output \o recs}

\* --------------------------------------------------------------- buffers
putBuffer(b) == released' = released \cup {IF b \in released THEN 0 - b ELSE b}

\* handleError without the comparison with w.lastErr
handleError_Always(err) ==
  IF err # "nil"
    THEN lastErr' = err /\ diag' = diag + 1
    ELSE UNCHANGED errVars

\* worker.handleError(err)
handleError(err) ==
  IF err # "nil" /\ lastErr # err
    THEN lastErr' = err /\ diag' = diag + 1
    ELSE UNCHANGED errVars

\* ---------------------------------------------------------------- worker
\* A receive from w.queue by the worker.  A sender parked on the full
\* channel completes its send in the same step, as the Go runtime does, and
\* its submit returns to where it was called from.
Recv ==
  /\ queue # <<>>
  /\ wcur' = Head(queue)
  /\ IF sendq # <<>>
       THEN LET s == Head(sendq) IN
            /\ queue' = Append(Tail(queue), cur[s])
            /\ enq' = enq \cup {cur[s]}
            /\ sendq' = Tail(sendq)
            /\ pc' = [pc EXCEPT ![s] = cont[s]]
            /\ cur' = [cur EXCEPT ![s] = NoBuf]
       ELSE /\ queue' = Tail(queue)
            /\ UNCHANGED <<sendq, enq, pc, cur>>

\* the stop case without drainAll
WSelectStop_NoDrain ==
  /\ wpc = "select"
  /\ stopChan
  /\ wmode' = "stop"
  /\ wpc' = "flush"
  /\ stopSnap' = Range(queue)
  /\ UNCHANGED <<strategy, pureVars, extVars, chanVars, bufioVars, destVars, outErr, lifeVars, handleVars,
                 wcur, wreq, callerVars, bufVars, poolVars, errVars>>

\* select case <-w.stopChan
WSelectStop ==
  /\ wpc = "select"
  /\ stopChan
  /\ wmode' = "stop"
  /\ wpc' = "drain"
  /\ stopSnap' = Range(queue)
  /\ UNCHANGED <<strategy, pureVars, extVars, chanVars, bufioVars, destVars, outErr, lifeVars, handleVars,
                 wcur, wreq, callerVars, bufVars, poolVars, errVars>>

\* the sync case without drainAll
WSelectSync_NoDrain(t) ==
  /\ wpc = "select"
  /\ pc[t] = "sync_wait"
  /\ wmode' = "sync"
  /\ wreq' = t
  /\ wpc' = "flush"
  /\ pc' = [pc EXCEPT ![t] = "sync_recv"]
  /\ UNCHANGED <<strategy, pureVars, extVars, chanVars, bufioVars, destVars, outErr, lifeVars, handleVars,
                 wcur, cur, hcur, ret, snap, errChan, bufVars, poolVars, stopSnap, errVars>>

\* select case errChan := <-w.syncChan, a rendezvous with a caller in sync()
WSelectSync(t) ==
  /\ wpc = "select"
  /\ pc[t] = "sync_wait"
  /\ wmode' = "sync"
  /\ wreq' = t
  /\ wpc' = "drain"
  /\ pc' = [pc EXCEPT ![t] = "sync_recv"]
  /\ UNCHANGED <<strategy, pureVars, extVars, chanVars, bufioVars, destVars, outErr, lifeVars, handleVars,
                 wcur, cur, hcur, ret, snap, errChan, bufVars, poolVars, stopSnap, errVars>>

\* select case b := <-w.queue
WSelectQueue ==
  /\ wpc = "select"
  /\ Recv
  /\ wmode' = "batch"
  /\ wpc' = "write"
  /\ UNCHANGED <<strategy, pureVars, extVars, bufioVars, destVars, outErr, lifeVars, handleVars,
                 wreq, hcur, ret, snap, errChan, bufVars, poolVars, stopSnap, errVars>>

\* the batching loop going back to the select without the flush
drainAll_NoFlush ==
  /\ wpc = "drain"
  /\ IF queue # <<>>
       THEN Recv /\ wpc' = "write" /\ UNCHANGED wmode
       ELSE /\ wpc' = IF wmode = "batch" THEN "select" ELSE "flush"
            /\ wmode' = IF wmode = "batch" THEN "none" ELSE wmode
            /\ UNCHANGED <<chanVars, wcur, pc, cur>>
  /\ UNCHANGED <<strategy, pureVars, extVars, bufioVars, destVars, outErr, lifeVars, handleVars,
                 wreq, hcur, ret, snap, errChan, bufVars, poolVars, stopSnap, errVars>>

\* drainAll, and the batching loop of run: a non-blocking receive
drainAll ==
  /\ wpc = "drain"
  /\ IF queue # <<>>
       THEN Recv /\ wpc' = "write"
       ELSE wpc' = "flush" /\ UNCHANGED <<chanVars, wcur, pc, cur>>
  /\ UNCHANGED <<strategy, pureVars, extVars, bufioVars, destVars, outErr, lifeVars, handleVars,
                 wmode, wreq, hcur, ret, snap, errChan, bufVars, poolVars, stopSnap, errVars>>

\* worker.write: w.bw.Write(b.B), then putBuffer(b).  A full bufio.Writer
\* first writes through what it holds.
write ==
  /\ wpc = "write"
  /\ IF bwErr # "nil"
       THEN /\ handleError(bwErr)
            /\ putBuffer(wcur)
            /\ wpc' = "drain" /\ wcur' = NoBuf
            /\ UNCHANGED <<bw, inWrite>>
       ELSE IF Len(bw) < BwCap
         THEN /\ bw' = Append(bw, wcur)
              /\ putBuffer(wcur)
              /\ wpc' = "drain" /\ wcur' = NoBuf
              /\ UNCHANGED <<inWrite, errVars>>
         ELSE /\ inWrite' = BeginWrite("w")
              /\ wpc' = "write_through"
              /\ UNCHANGED <<bw, wcur, released, errVars>>
  /\ UNCHANGED <<strategy, pureVars, extVars, chanVars, bwErr, output, delivered, outErr, lifeVars, handleVars,
                 wmode, wreq, callerVars, bufVars, dropped, stopSnap>>

\* the end of the write-through inside w.bw.Write
writeThrough ==
  /\ wpc = "write_through"
  /\ inWrite' = EndWrite("w")
  /\ IF outErr # "nil"
       THEN /\ bwErr' = outErr
            /\ handleError(outErr)
            /\ UNCHANGED <<bw, output, delivered>>
       ELSE /\ output' \in Outcomes("w", bw)
            /\ delivered' = delivered \cup Range(bw)
            /\ bw' = <<wcur>>
            /\ UNCHANGED <<bwErr, errVars>>
  /\ putBuffer(wcur)
  /\ wpc' = "drain" /\ wcur' = NoBuf
  /\ UNCHANGED <<strategy, pureVars, extVars, chanVars, outErr, lifeVars, handleVars,
                 wmode, wreq, callerVars, bufVars, dropped, stopSnap>>

\* run returning in the stop case without the deferred close(w.flushed)
AfterFlush_NoClose(err) ==
  /\ wmode' = "none"
  /\ wreq' = NoThread
  /\ IF wmode = "stop"
       THEN /\ wpc' = "done"
            /\ UNCHANGED <<errChan, flushed>>
       ELSE /\ wpc' = "select"
            /\ errChan' = IF wmode = "sync" THEN [errChan EXCEPT ![wreq] = err] ELSE errChan
            /\ UNCHANGED flushed

\* What run does with the result of flushBuffer in each select case.
AfterFlush(err) ==
  /\ wmode' = "none"
  /\ wreq' = NoThread
  /\ IF wmode = "stop"
       THEN /\ flushed' = TRUE
            /\ wpc' = "done"
            /\ UNCHANGED errChan
       ELSE /\ wpc' = "select"
            /\ errChan' = IF wmode = "sync" THEN [errChan EXCEPT ![wreq] = err] ELSE errChan
            /\ UNCHANGED flushed

\* worker.flushBuffer: w.bw.Flush()
flushBuffer ==
  /\ wpc = "flush"
  /\ IF bwErr # "nil"
       THEN /\ handleError(bwErr)
            /\ AfterFlush(bwErr)
            /\ UNCHANGED inWrite
       ELSE IF bw = <<>>
         THEN /\ AfterFlush("nil")
              /\ UNCHANGED <<inWrite, errVars>>
         ELSE /\ inWrite' = BeginWrite("w")
              /\ wpc' = "flush_end"
              /\ UNCHANGED <<wmode, wreq, flushed, errChan, errVars>>
  /\ UNCHANGED <<strategy, pureVars, extVars, chanVars, bufioVars, output, delivered, outErr, stopChan, workers,
                 handleVars, wcur, pc, cur, hcur, ret, snap, bufVars, poolVars, stopSnap>>

flushBufferEnd ==
  /\ wpc = "flush_end"
  /\ inWrite' = EndWrite("w")
  /\ IF outErr # "nil"
       THEN /\ bwErr' = outErr
            /\ handleError(outErr)
            /\ AfterFlush(outErr)
            /\ UNCHANGED <<bw, output, delivered>>
       ELSE /\ output' \in Outcomes("w", bw)
            /\ delivered' = delivered \cup Range(bw)
            /\ bw' = <<>>
            /\ AfterFlush("nil")
            /\ UNCHANGED <<bwErr, errVars>>
  /\ UNCHANGED <<strategy, pureVars, extVars, chanVars, outErr, stopChan, workers,
                 handleVars, wcur, pc, cur, hcur, ret, snap, bufVars, poolVars, stopSnap>>

run ==
  \/ WSelectStop
  \/ \E t \in Threads : WSelectSync(t)
  \/ WSelectQueue
  \/ drainAll
  \/ write
  \/ writeThrough
  \/ flushBuffer
  \/ flushBufferEnd


\* --------------------------------------------------------------- callers
\* worker.submit on a full queue, with the drop case taking the direct write
overflow_DropWrites(t, b) ==
  IF strategy = "block"
    THEN /\ pc' = [pc EXCEPT ![t] = "block_send"]
         /\ cur' = [cur EXCEPT ![t] = b]
         /\ UNCHANGED <<inWrite, poolVars>>
    ELSE /\ pc' = [pc EXCEPT ![t] = "direct_write"]
         /\ cur' = [cur EXCEPT ![t] = b]
         /\ inWrite' = BeginWrite(t)
         /\ UNCHANGED poolVars

\* worker.submit on a full queue: switch w.strategy
overflow(t, b) ==
  CASE strategy = "drop" ->
         /\ putBuffer(b)
         /\ dropped' = dropped \cup {b}
         /\ pc' = [pc EXCEPT ![t] = cont[t]]
         /\ UNCHANGED <<cur, inWrite>>
    [] strategy = "block" ->
         /\ pc' = [pc EXCEPT ![t] = "block_send"]
         /\ cur' = [cur EXCEPT ![t] = b]
         /\ UNCHANGED <<inWrite, poolVars>>
    [] strategy = "sync" ->
         /\ pc' = [pc EXCEPT ![t] = "direct_write"]
         /\ cur' = [cur EXCEPT ![t] = b]
         /\ inWrite' = BeginWrite(t)
         /\ UNCHANGED poolVars

\* getBuffer, the formatting, and worker.submit: the non-blocking send, and on
\* a full queue the overflow policy
workerSubmit(t) ==
  /\ nextBuf <= MaxBufs
  /\ LET b == nextBuf IN
     /\ nextBuf' = nextBuf + 1
     /\ owner' = [owner EXCEPT ![b] = t]
     /\ IF Len(queue) < QueueCap
          THEN /\ queue' = Append(queue, b)
               /\ enq' = enq \cup {b}
               /\ pc' = [pc EXCEPT ![t] = cont[t]]
               /\ UNCHANGED <<cur, inWrite, poolVars>>
          ELSE /\ UNCHANGED <<queue, enq>>
               /\ overflow(t, b)
  /\ UNCHANGED <<strategy, pureVars, cfgVars, samplerVars, sendq, bufioVars, output, delivered, outErr, lifeVars, handleVars,
                 workerVars, hcur, ret, snap, errChan, stopSnap, errVars>>

\* Logger.log -> Logger.submit -> worker.submit of a call that passes the level
\* gate on a handle without sampler, below PanicLevel
submit(t) ==
  /\ pc[t] = "idle"
  /\ workerSubmit(t)
  /\ UNCHANGED logVars

\* case OverflowBlock: w.queue <- b
blockSend(t) ==
  /\ pc[t] = "block_send"
  /\ IF Len(queue) < QueueCap
       THEN /\ queue' = Append(queue, cur[t])
            /\ enq' = enq \cup {cur[t]}
            /\ pc' = [pc EXCEPT ![t] = cont[t]]
            /\ cur' = [cur EXCEPT ![t] = NoBuf]
            /\ UNCHANGED sendq
       ELSE /\ sendq' = Append(sendq, t)
            /\ pc' = [pc EXCEPT ![t] = "parked"]
            /\ UNCHANGED <<queue, enq, cur>>
  /\ UNCHANGED <<strategy, pureVars, extVars, bufioVars, destVars, outErr, lifeVars, handleVars,
                 workerVars, hcur, ret, snap, errChan, bufVars, poolVars, stopSnap, errVars>>

\* case OverflowSync: w.output.Write(b.B) returns (its error is ignored); putBuffer(b)
directWrite(t) ==
  /\ pc[t] = "direct_write"
  /\ inWrite' = EndWrite(t)
  /\ IF outErr # "nil"
       THEN UNCHANGED <<output, delivered>>
       ELSE /\ output' \in Outcomes(t, <<cur[t]>>)
            /\ delivered' = delivered \cup {cur[t]}
  /\ putBuffer(cur[t])
  /\ pc' = [pc EXCEPT ![t] = cont[t]]
  /\ cur' = [cur EXCEPT ![t] = NoBuf]
  /\ UNCHANGED <<strategy, pureVars, extVars, chanVars, bufioVars, outErr, lifeVars, handleVars,
                 workerVars, hcur, ret, snap, errChan, bufVars, dropped, stopSnap, errVars>>

\* the records whose worker.submit has returned
Submitted == {b \in 1..(nextBuf - 1) : \A t \in Threads : cur[t] # b}

\* Logger.Sync -> worker.sync: errChan is made, the select is entered
sync(t) ==
  /\ pc[t] = "idle"
  /\ pc' = [pc EXCEPT ![t] = "sync_wait"]
  /\ snap' = [snap EXCEPT ![t] = Submitted]
  /\ UNCHANGED <<strategy, pureVars, extVars, chanVars, bufioVars, destVars, outErr, lifeVars, handleVars,
                 workerVars, cur, hcur, ret, errChan, bufVars, poolVars, stopSnap, errVars>>

\* worker.sync, case <-w.flushed: return nil
syncFlushed(t) ==
  /\ pc[t] = "sync_wait"
  /\ flushed
  /\ ret' = [ret EXCEPT ![t] = "nil"]
  /\ pc' = [pc EXCEPT ![t] = "sync_ret_stopped"]
  /\ UNCHANGED <<strategy, pureVars, extVars, chanVars, bufioVars, destVars, outErr, lifeVars, handleVars,
                 workerVars, cur, hcur, snap, errChan, bufVars, poolVars, stopSnap, errVars>>

\* worker.sync, case w.syncChan <- errChan: return <-errChan
syncRecv(t) ==
  /\ pc[t] = "sync_recv"
  /\ errChan[t] # "none"
  /\ ret' = [ret EXCEPT ![t] = errChan[t]]
  /\ errChan' = [errChan EXCEPT ![t] = "none"]
  /\ pc' = [pc EXCEPT ![t] = "sync_ret"]
  /\ UNCHANGED <<strategy, pureVars, extVars, chanVars, bufioVars, destVars, outErr, lifeVars, handleVars,
                 workerVars, cur, hcur, snap, bufVars, poolVars, stopSnap, errVars>>

\* sync has returned ret[t] to its caller
syncReturn(t) ==
  /\ pc[t] \in {"sync_ret", "sync_ret_stopped"}
  /\ pc' = [pc EXCEPT ![t] = cont[t]]
  /\ ret' = [ret EXCEPT ![t] = "none"]
  /\ snap' = [snap EXCEPT ![t] = {}]
  /\ UNCHANGED <<strategy, pureVars, extVars, chanVars, bufioVars, destVars, outErr, lifeVars, handleVars,
                 workerVars, cur, hcur, errChan, bufVars, poolVars, stopSnap, errVars>>

\* a derivation that gives the new handle a level indicator of its own
With_OwnLevel(t, h) ==
  /\ pc[t] = "idle"
  /\ h \in 1..nHandles
  /\ nHandles < MaxHandles
  /\ nHandles' = nHandles + 1
  /\ prefix' = [prefix EXCEPT ![nHandles + 1] = prefix[h]]
  /\ formatter' = [formatter EXCEPT ![nHandles + 1] = formatter[h]]
  /\ reportTimestamp' = [reportTimestamp EXCEPT ![nHandles + 1] = reportTimestamp[h]]
  /\ sampled' = [sampled EXCEPT ![nHandles + 1] = sampled[h]]
  /\ levelRef' = [levelRef EXCEPT ![nHandles + 1] = nHandles + 1]
  /\ level' = [level EXCEPT ![nHandles + 1] = level[levelRef[h]]]
  /\ lastDerive' = <<h, nHandles + 1>>
  /\ refCount' = refCount + 1
  /\ UNCHANGED <<strategy, pureVars, logVars, samplerVars, chanVars, bufioVars, destVars, outErr,
                 lifeVars, closed, workerVars, callerVars, bufVars, poolVars, stopSnap, errVars>>

\* Logger.With(keyvals...) with at least one argument, Logger.WithFields with at
\* least one field: a new handle on the same worker, level indicator, sampler
\* and configuration snapshot
With(t, h) ==
  /\ pc[t] = "idle"
  /\ h \in 1..nHandles
  /\ nHandles < MaxHandles
  /\ nHandles' = nHandles + 1
  /\ prefix' = [prefix EXCEPT ![nHandles + 1] = prefix[h]]
  /\ formatter' = [formatter EXCEPT ![nHandles + 1] = formatter[h]]
  /\ reportTimestamp' = [reportTimestamp EXCEPT ![nHandles + 1] = reportTimestamp[h]]
  /\ sampled' = [sampled EXCEPT ![nHandles + 1] = sampled[h]]
  /\ levelRef' = [levelRef EXCEPT ![nHandles + 1] = levelRef[h]]
  /\ lastDerive' = <<h, nHandles + 1>>
  /\ refCount' = refCount + 1
  /\ UNCHANGED <<strategy, pureVars, level, logVars, samplerVars, chanVars, bufioVars, destVars, outErr,
                 lifeVars, closed, workerVars, callerVars, bufVars, poolVars, stopSnap, errVars>>

\* what the log calls in progress on handle h have seen of its configuration,
\* once cfg has been stored into it
SeenAfter(h, cfg) ==
  [x \in Threads |-> IF lh[x] = h /\ seen[x] # {} THEN seen[x] \cup {cfg} ELSE seen[x]]

\* Logger.WithPrefix(p): nl := l.With() has no arguments and returns l itself;
\* nl.SetPrefix(p) then swaps the configuration of that same handle
WithPrefix(t, h, p) ==
  /\ pc[t] = "idle"
  /\ h \in 1..nHandles
  /\ prefix' = [prefix EXCEPT ![h] = p]
  /\ lastDerive' = <<h, h>>
  /\ seen' = SeenAfter(h, Cfg(p, formatter[h], reportTimestamp[h]))
  /\ UNCHANGED <<strategy, pureVars, level, levelRef, formatter, reportTimestamp, sampled, mu, cont, lh, llvl,
                 cfgSnap, fmtd, samplerVars, chanVars, bufioVars, destVars, outErr, lifeVars,
                 refCount, closed, nHandles, workerVars, callerVars, bufVars, poolVars, stopSnap,
                 errVars>>

\* Close without the compare-and-swap on l.closed
Close_NoCAS(t, h) ==
  /\ pc[t] = "idle"
  /\ h \in 1..nHandles
  /\ closed' = [closed EXCEPT ![h] = TRUE]
  /\ pc' = [pc EXCEPT ![t] = "close_dec"]
  /\ hcur' = [hcur EXCEPT ![t] = h]
  /\ UNCHANGED <<strategy, pureVars, extVars, chanVars, bufioVars, destVars, outErr, lifeVars, refCount, nHandles, prefix,
                 workerVars, cur, ret, snap, errChan, bufVars, poolVars, stopSnap, errVars>>

\* Logger.Close: l.closed.CompareAndSwap(0, 1)
Close(t, h) ==
  /\ pc[t] = "idle"
  /\ h \in 1..nHandles
  /\ IF closed[h]
       THEN UNCHANGED <<closed, pc, hcur>>
       ELSE /\ closed' = [closed EXCEPT ![h] = TRUE]
            /\ pc' = [pc EXCEPT ![t] = "close_dec"]
            /\ hcur' = [hcur EXCEPT ![t] = h]
  /\ UNCHANGED <<strategy, pureVars, extVars, chanVars, bufioVars, destVars, outErr, lifeVars, refCount, nHandles, prefix,
                 workerVars, cur, ret, snap, errChan, bufVars, poolVars, stopSnap, errVars>>

\* Close stopping the worker whatever the count
closeDec_AlwaysStop(t) ==
  /\ pc[t] = "close_dec"
  /\ refCount' = refCount - 1
  /\ pc' = [pc EXCEPT ![t] = "stop_unreg"]
  /\ UNCHANGED <<strategy, pureVars, extVars, chanVars, bufioVars, destVars, outErr, lifeVars, closed, nHandles, prefix,
                 workerVars, cur, hcur, ret, snap, errChan, bufVars, poolVars, stopSnap, errVars>>

\* Logger.Close: if l.worker.refCount.Add(-1) == 0 { l.worker.stop() }
closeDec(t) ==
  /\ pc[t] = "close_dec"
  /\ refCount' = refCount - 1
  /\ pc' = [pc EXCEPT ![t] = IF refCount - 1 = 0 THEN "stop_unreg" ELSE "idle"]
  /\ hcur' = [hcur EXCEPT ![t] = IF refCount - 1 = 0 THEN hcur[t] ELSE 0]
  /\ UNCHANGED <<strategy, pureVars, extVars, chanVars, bufioVars, destVars, outErr, lifeVars, closed, nHandles, prefix,
                 workerVars, cur, ret, snap, errChan, bufVars, poolVars, stopSnap, errVars>>

\* the registry without the first occurrence of w
RemoveFirst(s, w) ==
  IF \E i \in 1..Len(s) : s[i] = w
    THEN LET i == CHOOSE j \in 1..Len(s) : s[j] = w /\ \A k \in 1..(j-1) : s[k] # w
         IN  SubSeq(s, 1, i-1) \o SubSeq(s, i+1, Len(s))
    ELSE s

\* worker.stop leaving the worker in _workers
stopUnregister_Keep(t) ==
  /\ pc[t] = "stop_unreg"
  /\ mu = NoThread
  /\ pc' = [pc EXCEPT ![t] = "stop_close"]
  /\ UNCHANGED <<strategy, pureVars, extVars, chanVars, bufioVars, destVars, outErr, lifeVars, handleVars,
                 workerVars, cur, hcur, ret, snap, errChan, bufVars, poolVars, stopSnap, errVars>>

\* worker.stop: the worker is taken out of _workers under _workersMu
stopUnregister(t) ==
  /\ pc[t] = "stop_unreg"
  /\ mu = NoThread
  /\ workers' = RemoveFirst(workers, "w")
  /\ pc' = [pc EXCEPT ![t] = "stop_close"]
  /\ UNCHANGED <<strategy, pureVars, extVars, chanVars, bufioVars, destVars, outErr, stopChan, flushed, handleVars,
                 workerVars, cur, hcur, ret, snap, errChan, bufVars, poolVars, stopSnap, errVars>>

\* worker.stop: close(w.stopChan); closing a closed channel panics
stopClose(t) ==
  /\ pc[t] = "stop_close"
  /\ IF stopChan
       THEN pc' = [pc EXCEPT ![t] = "panicked"] /\ UNCHANGED stopChan
       ELSE pc' = [pc EXCEPT ![t] = "stop_wait"] /\ stopChan' = TRUE
  /\ UNCHANGED <<strategy, pureVars, extVars, chanVars, bufioVars, destVars, outErr, flushed, workers, handleVars,
                 workerVars, cur, hcur, ret, snap, errChan, bufVars, poolVars, stopSnap, errVars>>

\* worker.stop: <-w.flushed
stopWait(t) ==
  /\ pc[t] = "stop_wait"
  /\ flushed
  /\ pc' = [pc EXCEPT ![t] = "close_ret"]
  /\ UNCHANGED <<strategy, pureVars, extVars, chanVars, bufioVars, destVars, outErr, lifeVars, handleVars,
                 workerVars, cur, hcur, ret, snap, errChan, bufVars, poolVars, stopSnap, errVars>>

\* the Close that stopped the worker has returned
closeReturn(t) ==
  /\ pc[t] = "close_ret"
  /\ pc' = [pc EXCEPT ![t] = "idle"]
  /\ hcur' = [hcur EXCEPT ![t] = 0]
  /\ UNCHANGED <<strategy, pureVars, extVars, chanVars, bufioVars, destVars, outErr, lifeVars, handleVars,
                 workerVars, cur, ret, snap, errChan, bufVars, poolVars, stopSnap, errVars>>

caller(t) ==
  \/ submit(t)
  \/ blockSend(t)
  \/ directWrite(t)
  \/ sync(t)
  \/ syncFlushed(t)
  \/ syncRecv(t)
  \/ syncReturn(t)
  \/ \E h \in 1..MaxHandles : With(t, h)
  \/ \E h \in 1..MaxHandles : Close(t, h)
  \/ closeDec(t)
  \/ stopUnregister(t)
  \/ stopClose(t)
  \/ stopWait(t)
  \/ closeReturn(t)

\* ------------------------------------------------------------- log calls
\* everything of the worker, its queue and the destination
wkVars == <<strategy, pureVars, chanVars, bufioVars, destVars, outErr, lifeVars, workerVars,
            bufVars, poolVars, stopSnap, errVars>>

\* the same without the buffer numbering
wkVars2 == <<strategy, chanVars, bufioVars, destVars, outErr, lifeVars, workerVars,
             poolVars, stopSnap, errVars>>

\* l.level.val.Load()
LevelOf(h) == level[levelRef[h]]

\* the configuration l.config points to
CfgOf(h) == Cfg(prefix[h], formatter[h], reportTimestamp[h])

\* Log without the level test
Log_NoGate(t, h, lvl) ==
  /\ pc[t] = "idle"
  /\ h \in 1..nHandles
  /\ Len(hooks) + Cardinality({x \in Threads : pc[x] # "idle" /\ lh[x] # 0 /\ sampled[lh[x]]}) < MaxChecks
  /\ lh' = [lh EXCEPT ![t] = h]
  /\ llvl' = [llvl EXCEPT ![t] = lvl]
  /\ seen' = [seen EXCEPT ![t] = {CfgOf(h)}]
  /\ fmtd' = [fmtd EXCEPT ![t] = NoCfg]
  /\ cfgSnap' = [cfgSnap EXCEPT ![t] = NoCfg]
  /\ pc' = [pc EXCEPT ![t] = "log_cfg"]
  /\ UNCHANGED <<wkVars, handleVars, cur, hcur, ret, snap, errChan, cfgVars, mu, cont, samplerVars>>

\* Logger.Log(level, ...): if l.level.val.Load() > int64(level) { return }
Log(t, h, lvl) ==
  /\ pc[t] = "idle"
  /\ h \in 1..nHandles
  /\ Len(hooks) + Cardinality({x \in Threads : pc[x] # "idle" /\ lh[x] # 0 /\ sampled[lh[x]]}) < MaxChecks
  /\ lh' = [lh EXCEPT ![t] = h]
  /\ llvl' = [llvl EXCEPT ![t] = lvl]
  /\ seen' = [seen EXCEPT ![t] = {CfgOf(h)}]
  /\ fmtd' = [fmtd EXCEPT ![t] = NoCfg]
  /\ cfgSnap' = [cfgSnap EXCEPT ![t] = NoCfg]
  /\ pc' = [pc EXCEPT ![t] = IF LevelOf(h) > lvl THEN "log_ret" ELSE "log_cfg"]
  /\ UNCHANGED <<wkVars, handleVars, cur, hcur, ret, snap, errChan, cfgVars, mu, cont, samplerVars>>

\* Logger.log: cfg := l.config.Load(); t is the clock's time if cfg.reportTimestamp
\* and the zero time otherwise; then the sampler, if the handle has one
logConfig(t) ==
  /\ pc[t] = "log_cfg"
  /\ cfgSnap' = [cfgSnap EXCEPT ![t] = CfgOf(lh[t])]
  /\ sT' = [sT EXCEPT ![t] = IF reportTimestamp[lh[t]] THEN now ELSE ZeroTime]
  /\ IF sampled[lh[t]]
       THEN /\ pc' = [pc EXCEPT ![t] = "chk"]
            /\ cont' = [cont EXCEPT ![t] = "log_sampled"]
       ELSE /\ pc' = [pc EXCEPT ![t] = "log_submit"]
            /\ cont' = [cont EXCEPT ![t] = "log_tail"]
  /\ UNCHANGED <<wkVars, handleVars, cur, hcur, ret, snap, errChan, cfgVars, mu, lh, llvl, seen, fmtd,
                 counter, resetAt, now, hooks, sResetAfter, sN, sret, first, thereafter>>

\* Logger.log: if l.sampler != nil && !l.sampler.check(level, msg, t) { return }
logSampled(t) ==
  /\ pc[t] = "log_sampled"
  /\ IF sret[t]
       THEN /\ pc' = [pc EXCEPT ![t] = "log_submit"]
            /\ cont' = [cont EXCEPT ![t] = "log_tail"]
       ELSE /\ pc' = [pc EXCEPT ![t] = "log_ret"]
            /\ cont' = [cont EXCEPT ![t] = "idle"]
  /\ UNCHANGED <<wkVars, handleVars, cur, hcur, ret, snap, errChan, cfgVars, mu, lh, llvl, cfgSnap,
                 seen, fmtd, samplerVars>>

\* a log call that reads the formatter from the handle again when it formats
logSubmit_Reload(t) ==
  /\ pc[t] = "log_submit"
  /\ fmtd' = [fmtd EXCEPT ![t] = [cfgSnap[t] EXCEPT !.formatter = formatter[lh[t]]]]
  /\ workerSubmit(t)
  /\ UNCHANGED <<mu, cont, lh, llvl, cfgSnap, seen>>

\* Logger.log: b := getBuffer(); the record is formatted from cfg; l.submit(b)
logSubmit(t) ==
  /\ pc[t] = "log_submit"
  /\ fmtd' = [fmtd EXCEPT ![t] = cfgSnap[t]]
  /\ workerSubmit(t)
  /\ UNCHANGED <<mu, cont, lh, llvl, cfgSnap, seen>>

\* Logger.log after l.submit(b), below PanicLevel: the call returns
logTail(t) ==
  /\ pc[t] = "log_tail"
  /\ llvl[t] \notin {PanicLevel, FatalLevel}
  /\ pc' = [pc EXCEPT ![t] = "log_ret"]
  /\ cont' = [cont EXCEPT ![t] = "idle"]
  /\ UNCHANGED <<wkVars, handleVars, cur, hcur, ret, snap, errChan, cfgVars, mu, lh, llvl, cfgSnap,
                 seen, fmtd, samplerVars>>

\* the log call has returned to its caller
logReturn(t) ==
  /\ pc[t] = "log_ret"
  /\ pc' = [pc EXCEPT ![t] = "idle"]
  /\ lh' = [lh EXCEPT ![t] = 0]
  /\ seen' = [seen EXCEPT ![t] = {}]
  /\ UNCHANGED <<wkVars, handleVars, cur, hcur, ret, snap, errChan, cfgVars, mu, cont, llvl, cfgSnap,
                 fmtd, samplerVars>>

\* ---------------------------------------------------------------- sampler
\* check with the level test left out
chk_NoRange(t) ==
  /\ pc[t] = "chk"
  /\ LET l == IF llvl[t] \in Sampled THEN llvl[t] ELSE MinLevel IN
     /\ sResetAfter' = [sResetAfter EXCEPT ![t] = resetAt[l]]
     /\ pc' = [pc EXCEPT ![t] = IF resetAt[l] > sT[t] THEN "chk_add" ELSE "chk_store"]
  /\ UNCHANGED <<wkVars, handleVars, cur, hcur, ret, snap, errChan, cfgVars, logVars,
                 counter, resetAt, now, hooks, sT, sN, sret, first, thereafter>>

\* sampler.check: the level test; for a level that has counters, s.counts.get and
\* the start of IncCheckReset: resetAfter := c.resetAt.Load(); if resetAfter > tn
chk(t) ==
  /\ pc[t] = "chk"
  /\ IF llvl[t] >= MinLevel /\ llvl[t] <= MaxLevel
       THEN /\ sResetAfter' = [sResetAfter EXCEPT ![t] = resetAt[llvl[t]]]
            /\ pc' = [pc EXCEPT ![t] = IF resetAt[llvl[t]] > sT[t] THEN "chk_add" ELSE "chk_store"]
            /\ UNCHANGED sret
       ELSE /\ sret' = [sret EXCEPT ![t] = TRUE]
            /\ pc' = [pc EXCEPT ![t] = cont[t]]
            /\ UNCHANGED sResetAfter
  /\ UNCHANGED <<wkVars, handleVars, cur, hcur, ret, snap, errChan, cfgVars, logVars,
                 counter, resetAt, now, hooks, sT, sN, first, thereafter>>

\* the count handed out without the increment being stored
chkAdd_NoInc(t) ==
  /\ pc[t] = "chk_add"
  /\ sN' = [sN EXCEPT ![t] = counter[llvl[t]] + 1]
  /\ pc' = [pc EXCEPT ![t] = "chk_decide"]
  /\ UNCHANGED <<wkVars, handleVars, cur, hcur, ret, snap, errChan, cfgVars, logVars,
                 counter, resetAt, now, hooks, sT, sResetAfter, sret, first, thereafter>>

\* IncCheckReset: return c.counter.Add(1), on both paths that reach it
chkAdd(t) ==
  /\ pc[t] = "chk_add"
  /\ counter' = [counter EXCEPT ![llvl[t]] = @ + 1]
  /\ sN' = [sN EXCEPT ![t] = counter[llvl[t]] + 1]
  /\ pc' = [pc EXCEPT ![t] = "chk_decide"]
  /\ UNCHANGED <<wkVars, handleVars, cur, hcur, ret, snap, errChan, cfgVars, logVars,
                 resetAt, now, hooks, sT, sResetAfter, sret, first, thereafter>>

\* IncCheckReset: c.counter.Store(1)
chkStore(t) ==
  /\ pc[t] = "chk_store"
  /\ counter' = [counter EXCEPT ![llvl[t]] = 1]
  /\ pc' = [pc EXCEPT ![t] = "chk_cas"]
  /\ UNCHANGED <<wkVars, handleVars, cur, hcur, ret, snap, errChan, cfgVars, logVars,
                 resetAt, now, hooks, sT, sResetAfter, sN, sret, first, thereafter>>

\* the compare-and-swap leaving the deadline where it was
chkCas_KeepDeadline(t) ==
  /\ pc[t] = "chk_cas"
  /\ IF resetAt[llvl[t]] = sResetAfter[t]
       THEN /\ sN' = [sN EXCEPT ![t] = 1]
            /\ pc' = [pc EXCEPT ![t] = "chk_decide"]
       ELSE /\ pc' = [pc EXCEPT ![t] = "chk_add"]
            /\ UNCHANGED sN
  /\ UNCHANGED <<wkVars, handleVars, cur, hcur, ret, snap, errChan, cfgVars, logVars,
                 counter, resetAt, now, hooks, sT, sResetAfter, sret, first, thereafter>>

\* the deadline stored without the comparison: every goroutine resets
chkCas_Store(t) ==
  /\ pc[t] = "chk_cas"
  /\ resetAt' = [resetAt EXCEPT ![llvl[t]] = sT[t] + Tick]
  /\ sN' = [sN EXCEPT ![t] = 1]
  /\ pc' = [pc EXCEPT ![t] = "chk_decide"]
  /\ UNCHANGED <<wkVars, handleVars, cur, hcur, ret, snap, errChan, cfgVars, logVars,
                 counter, now, hooks, sT, sResetAfter, sret, first, thereafter>>

\* IncCheckReset: c.resetAt.CompareAndSwap(resetAfter, tn + tick.Nanoseconds());
\* return 1 if it swapped, and on to c.counter.Add(1) if it did not
chkCas(t) ==
  /\ pc[t] = "chk_cas"
  /\ IF resetAt[llvl[t]] = sResetAfter[t]
       THEN /\ resetAt' = [resetAt EXCEPT ![llvl[t]] = sT[t] + Tick]
            /\ sN' = [sN EXCEPT ![t] = 1]
            /\ pc' = [pc EXCEPT ![t] = "chk_decide"]
       ELSE /\ pc' = [pc EXCEPT ![t] = "chk_add"]
            /\ UNCHANGED <<resetAt, sN>>
  /\ UNCHANGED <<wkVars, handleVars, cur, hcur, ret, snap, errChan, cfgVars, logVars,
                 counter, now, hooks, sT, sResetAfter, sret, first, thereafter>>

\* the decision taking the rest of the division by thereafter for the count
chkDecide_NoFirst(t) ==
  /\ pc[t] = "chk_decide"
  /\ LET n == sN[t]
         drop == thereafter = 0 \/ n % thereafter # 0
     IN  /\ hooks' = Append(hooks, [lvl |-> llvl[t], time |-> sT[t], n |-> n,
                                    dec |-> IF drop THEN "LogDropped" ELSE "LogSampled"])
         /\ sret' = [sret EXCEPT ![t] = ~drop]
  /\ pc' = [pc EXCEPT ![t] = cont[t]]
  /\ UNCHANGED <<wkVars, handleVars, cur, hcur, ret, snap, errChan, cfgVars, logVars,
                 counter, resetAt, now, sT, sResetAfter, sN, first, thereafter>>

\* sampler.check: if n > s.first && (s.thereafter == 0 || (n-s.first)%s.thereafter != 0)
\* the hook gets LogDropped and check returns false; otherwise LogSampled and true
chkDecide(t) ==
  /\ pc[t] = "chk_decide"
  /\ LET n == sN[t]
         drop == n > first /\ (thereafter = 0 \/ (n - first) % thereafter # 0)
     IN  /\ hooks' = Append(hooks, [lvl |-> llvl[t], time |-> sT[t], n |-> n,
                                    dec |-> IF drop THEN "LogDropped" ELSE "LogSampled"])
         /\ sret' = [sret EXCEPT ![t] = ~drop]
  /\ pc' = [pc EXCEPT ![t] = cont[t]]
  /\ UNCHANGED <<wkVars, handleVars, cur, hcur, ret, snap, errChan, cfgVars, logVars,
                 counter, resetAt, now, sT, sResetAfter, sN, first, thereafter>>

\* a caller hands (lvl, the one message, the clock's time) to check
check(t, lvl) ==
  /\ pc[t] = "idle"
  /\ Len(hooks) + Cardinality({x \in Threads : pc[x] # "idle" /\ llvl[x] \in Sampled}) < MaxChecks
  /\ llvl' = [llvl EXCEPT ![t] = lvl]
  /\ sT' = [sT EXCEPT ![t] = now]
  /\ cont' = [cont EXCEPT ![t] = "chk_ret"]
  /\ pc' = [pc EXCEPT ![t] = "chk"]
  /\ UNCHANGED <<wkVars, handleVars, cur, hcur, ret, snap, errChan, cfgVars, mu, lh, cfgSnap, seen, fmtd,
                 counter, resetAt, now, hooks, sResetAfter, sN, sret, first, thereafter>>

\* check has returned sret[t] to its caller
checkReturn(t) ==
  /\ pc[t] = "chk_ret"
  /\ pc' = [pc EXCEPT ![t] = "idle"]
  /\ cont' = [cont EXCEPT ![t] = "idle"]
  /\ UNCHANGED <<wkVars, handleVars, cur, hcur, ret, snap, errChan, cfgVars, mu, lh, llvl, cfgSnap,
                 seen, fmtd, samplerVars>>

\* the wall clock advances
clockTick ==
  /\ now < MaxTime
  /\ now' = now + 1
  /\ UNCHANGED <<wkVars, handleVars, callerVars, cfgVars, logVars,
                 counter, resetAt, hooks, sT, sResetAfter, sN, sret, first, thereafter>>

\* ----------------------------------------------------------------- panic
\* Logger.log, level == PanicLevel: l.Sync(), which is worker.sync()
panicSync(t) ==
  /\ pc[t] = "log_tail"
  /\ llvl[t] = PanicLevel
  /\ pc' = [pc EXCEPT ![t] = "sync_wait"]
  /\ snap' = [snap EXCEPT ![t] = Submitted]
  /\ cont' = [cont EXCEPT ![t] = "panic"]
  /\ UNCHANGED <<wkVars, handleVars, cur, hcur, ret, errChan, cfgVars, mu, lh, llvl, cfgSnap,
                 seen, fmtd, samplerVars>>

\* Logger.log: panic(msg)
panicRaise(t) ==
  /\ pc[t] = "panic"
  /\ pc' = [pc EXCEPT ![t] = "panic_raised"]
  /\ cont' = [cont EXCEPT ![t] = "idle"]
  /\ UNCHANGED <<wkVars, handleVars, cur, hcur, ret, snap, errChan, cfgVars, mu, lh, llvl, cfgSnap,
                 seen, fmtd, samplerVars>>

\* NewSamplerWithOptions(logger, tick, f, th): a new handle on the same worker,
\* level indicator and configuration, with a sampler of its own
NewSampler(t, h, f, th) ==
  /\ pc[t] = "idle"
  /\ h \in 1..nHandles
  /\ nHandles < MaxHandles
  /\ \A x \in 1..nHandles : ~sampled[x]
  /\ nHandles' = nHandles + 1
  /\ prefix' = [prefix EXCEPT ![nHandles + 1] = prefix[h]]
  /\ formatter' = [formatter EXCEPT ![nHandles + 1] = formatter[h]]
  /\ reportTimestamp' = [reportTimestamp EXCEPT ![nHandles + 1] = reportTimestamp[h]]
  /\ sampled' = [sampled EXCEPT ![nHandles + 1] = TRUE]
  /\ levelRef' = [levelRef EXCEPT ![nHandles + 1] = levelRef[h]]
  /\ first' = f /\ thereafter' = th
  /\ counter' = [l \in Sampled |-> 0]
  /\ resetAt' = [l \in Sampled |-> 0]
  /\ refCount' = refCount + 1
  /\ lastDerive' = <<h, nHandles + 1>>
  /\ UNCHANGED <<wkVars, closed, callerVars, level, logVars, now, hooks, sT, sResetAfter, sN, sret>>

\* Logger.SetLevel(v): one atomic store into the levelState the handle points to
SetLevel(t, h, v) ==
  /\ pc[t] = "idle"
  /\ h \in 1..nHandles
  /\ level' = [level EXCEPT ![levelRef[h]] = v]
  /\ UNCHANGED <<wkVars, handleVars, callerVars, levelRef, formatter, reportTimestamp, sampled,
                 lastDerive, logVars, samplerVars>>

\* the first half of a configuration setter on handle h: cfg := l.config.Load();
\* newCfg := *cfg; one attribute of newCfg is assigned
setLoad(t, h, newCfg) ==
  /\ pc[t] = "idle"
  /\ h \in 1..nHandles
  /\ lh' = [lh EXCEPT ![t] = h]
  /\ cfgSnap' = [cfgSnap EXCEPT ![t] = newCfg]
  /\ pc' = [pc EXCEPT ![t] = "set_store"]
  /\ UNCHANGED <<wkVars, handleVars, cur, hcur, ret, snap, errChan, cfgVars, mu, cont, llvl, seen,
                 fmtd, samplerVars>>

\* Logger.SetPrefix(p)
SetPrefix(t, h, p) == setLoad(t, h, [CfgOf(h) EXCEPT !.prefix = p])

\* Logger.SetFormatter(f)
SetFormatter(t, h, f) == setLoad(t, h, [CfgOf(h) EXCEPT !.formatter = f])

\* Logger.SetReportTimestamp(r)
SetReportTimestamp(t, h, r) == setLoad(t, h, [CfgOf(h) EXCEPT !.reportTimestamp = r])

\* the second half of every setter: l.config.Store(&newCfg)
setStore(t) ==
  /\ pc[t] = "set_store"
  /\ prefix' = [prefix EXCEPT ![lh[t]] = cfgSnap[t].prefix]
  /\ formatter' = [formatter EXCEPT ![lh[t]] = cfgSnap[t].formatter]
  /\ reportTimestamp' = [reportTimestamp EXCEPT ![lh[t]] = cfgSnap[t].reportTimestamp]
  /\ seen' = SeenAfter(lh[t], cfgSnap[t])
  /\ lh' = [lh EXCEPT ![t] = 0]
  /\ cfgSnap' = [cfgSnap EXCEPT ![t] = NoCfg]
  /\ pc' = [pc EXCEPT ![t] = "idle"]
  /\ UNCHANGED <<wkVars, refCount, closed, nHandles, cur, hcur, ret, snap, errChan, level, levelRef,
                 sampled, lastDerive, mu, cont, llvl, fmtd, samplerVars>>

\* ------------------------------------------------------- fatal: flush-all
\* Logger.log, level == FatalLevel: flushAllWorkers() takes _workersMu
fatalLock(t) ==
  /\ pc[t] = "log_tail"
  /\ llvl[t] = FatalLevel
  /\ mu = NoThread
  /\ mu' = t
  /\ pc' = [pc EXCEPT ![t] = "flush_all"]
  /\ UNCHANGED <<wkVars, handleVars, cur, hcur, ret, snap, errChan, cfgVars, cont, lh, llvl, cfgSnap,
                 seen, fmtd, samplerVars>>

\* flushAllWorkers leaving the registered worker alone
flushAllWorkers_NoSync(t) ==
  /\ pc[t] = "flush_all"
  /\ snap' = [snap EXCEPT ![t] = Submitted]
  /\ pc' = [pc EXCEPT ![t] = "flush_all_ret"]
  /\ cont' = [cont EXCEPT ![t] = "flush_all_ret"]
  /\ UNCHANGED <<wkVars, handleVars, cur, hcur, ret, errChan, cfgVars, mu, lh, llvl, cfgSnap,
                 seen, fmtd, samplerVars>>

\* flushAllWorkers: for _, w := range _workers { w.sync() }
flushAllWorkers(t) ==
  /\ pc[t] = "flush_all"
  /\ snap' = [snap EXCEPT ![t] = Submitted]
  /\ pc' = [pc EXCEPT ![t] = IF workers # <<>> THEN "sync_wait" ELSE "flush_all_ret"]
  /\ cont' = [cont EXCEPT ![t] = "flush_all_ret"]
  /\ UNCHANGED <<wkVars, handleVars, cur, hcur, ret, errChan, cfgVars, mu, lh, llvl, cfgSnap,
                 seen, fmtd, samplerVars>>

\* flushAllWorkers returns: the deferred _workersMu.Unlock()
flushAllUnlock(t) ==
  /\ pc[t] = "flush_all_ret"
  /\ mu' = NoThread
  /\ pc' = [pc EXCEPT ![t] = "fatal_exit"]
  /\ cont' = [cont EXCEPT ![t] = "idle"]
  /\ ret' = [ret EXCEPT ![t] = "none"]
  /\ snap' = [snap EXCEPT ![t] = {}]
  /\ UNCHANGED <<wkVars, handleVars, cur, hcur, errChan, cfgVars, lh, llvl, cfgSnap,
                 seen, fmtd, samplerVars>>

\* os.Exit(1): every goroutine of the process ends where it is
exit(t) ==
  /\ pc[t] = "fatal_exit"
  /\ pc' = [x \in Threads |-> "exited"]
  /\ wpc' = "exited"
  /\ UNCHANGED <<strategy, pureVars, chanVars, bufioVars, destVars, outErr, lifeVars, handleVars,
                 wmode, wcur, wreq, cur, hcur, ret, snap, errChan, bufVars, poolVars, stopSnap,
                 errVars, extVars>>

\* --------------------------------------------------- registry of workers
\* newWorker after w.start(): _workersMu.Lock()
newWorkerLock(t) ==
  /\ pc[t] = "new_lock"
  /\ mu = NoThread
  /\ mu' = t
  /\ pc' = [pc EXCEPT ![t] = "new_append"]
  /\ UNCHANGED <<wkVars, handleVars, cur, hcur, ret, snap, errChan, cfgVars, cont, lh, llvl, cfgSnap,
                 seen, fmtd, samplerVars>>

\* newWorker: _workers = append(_workers, w); _workersMu.Unlock(); return w,
\* and NewWithOptions returns the logger, which can be used from here on
newWorkerRegister(t) ==
  /\ pc[t] = "new_append"
  /\ workers' = Append(workers, "w")
  /\ mu' = NoThread
  /\ nHandles' = 1
  /\ pc' = [pc EXCEPT ![t] = "idle"]
  /\ UNCHANGED <<strategy, pureVars, chanVars, bufioVars, destVars, outErr, stopChan, flushed,
                 workerVars, bufVars, poolVars, stopSnap, errVars, refCount, closed, prefix,
                 cur, hcur, ret, snap, errChan, cfgVars, cont, lh, llvl, cfgSnap, seen, fmtd,
                 samplerVars>>

\* Fatal logged through a logger that has no worker: after its own write the
\* call reaches flushAllWorkers(), which takes _workersMu
fatalOther(t) ==
  /\ pc[t] = "idle"
  /\ mu = NoThread
  /\ mu' = t
  /\ pc' = [pc EXCEPT ![t] = "flush_all"]
  /\ UNCHANGED <<wkVars, handleVars, cur, hcur, ret, snap, errChan, cfgVars, cont, lh, llvl, cfgSnap,
                 seen, fmtd, samplerVars>>

\* ------------------------------------------------------------ environment
\* The destination starts to answer Write with an error, or accepts again.
destFails(e) ==
  /\ outErr = "nil"
  /\ outErr' = e
  /\ UNCHANGED <<strategy, pureVars, extVars, chanVars, bufioVars, destVars, lifeVars, handleVars,
                 workerVars, callerVars, bufVars, poolVars, stopSnap, errVars>>

destRecovers ==
  /\ outErr # "nil"
  /\ outErr' = "nil"
  /\ UNCHANGED <<strategy, pureVars, extVars, chanVars, bufioVars, destVars, lifeVars, handleVars,
                 workerVars, callerVars, bufVars, poolVars, stopSnap, errVars>>

\* ---------------------------------------------------------- specifications
Next == run \/ \E t \in Threads : caller(t)

\* a destination that accepts every Write
Spec == Init /\ [][Next]_vars

\* the handles of one worker and nothing logged: every operation that makes,
\* returns or closes a handle, and the worker's answer to the stop signal
NextHandles ==
  \/ WSelectStop
  \/ drainAll
  \/ flushBuffer
  \/ \E t \in Threads :
       \/ \E h \in 1..MaxHandles : With(t, h)
       \/ \E h \in 1..MaxHandles, p \in Prefixes : WithPrefix(t, h, p)
       \/ \E h \in 1..MaxHandles : Close(t, h)
       \/ closeDec(t)
       \/ stopUnregister(t)
       \/ stopClose(t)
       \/ stopWait(t)
       \/ closeReturn(t)

SpecHandles == Init /\ [][NextHandles]_vars

NextFaulty ==
  \/ run
  \/ \E t \in Threads :
       \/ submit(t)
       \/ blockSend(t)
       \/ directWrite(t)
       \/ sync(t)
       \/ syncFlushed(t)
       \/ syncRecv(t)
       \/ syncReturn(t)
       \/ \E h \in 1..MaxHandles : Close(t, h)
       \/ closeDec(t)
       \/ stopUnregister(t)
       \/ stopClose(t)
       \/ stopWait(t)
       \/ closeReturn(t)
  \/ \E e \in Errs : destFails(e)
  \/ destRecovers

\* a destination that may fail and recover at any moment, under one handle
SpecFaulty == Init /\ [][NextFaulty]_vars

\* Fatal-level and ordinary log calls on an asynchronous logger whose handles
\* are closed meanwhile; the destination accepts every Write
NextFatal ==
  \/ run
  \/ \E t \in Threads :
       \/ \E lvl \in {InfoLevel, FatalLevel} : Log(t, 1, lvl)
       \/ logConfig(t)
       \/ logSubmit(t)
       \/ blockSend(t)
       \/ directWrite(t)
       \/ logTail(t)
       \/ logReturn(t)
       \/ fatalLock(t)
       \/ flushAllWorkers(t)
       \/ syncRecv(t)
       \/ syncReturn(t)
       \/ flushAllUnlock(t)
       \/ exit(t)
       \/ Close(t, 1)
       \/ closeDec(t)
       \/ stopUnregister(t)
       \/ stopClose(t)
       \/ stopWait(t)
       \/ closeReturn(t)

SpecFatal == Init /\ [][NextFatal]_vars

\* NewSamplerWithOptions(logger, tick, first, thereafter): a fresh sampler
InitSampler ==
  /\ InitWorker
  /\ InitPure
  /\ level = [i \in 1..MaxHandles |-> InfoLevel]
  /\ levelRef = [h \in 1..MaxHandles |-> 1]
  /\ formatter = [h \in 1..MaxHandles |-> "text"]
  /\ reportTimestamp = [h \in 1..MaxHandles |-> FALSE]
  /\ sampled = [h \in 1..MaxHandles |-> FALSE]
  /\ lastDerive = <<0, 0>>
  /\ mu = NoThread
  /\ cont = [t \in Threads |-> "idle"]
  /\ lh = [t \in Threads |-> 0]
  /\ llvl = [t \in Threads |-> InfoLevel]
  /\ cfgSnap = [t \in Threads |-> NoCfg]
  /\ seen = [t \in Threads |-> {}]
  /\ fmtd = [t \in Threads |-> NoCfg]
  /\ counter = [l \in Sampled |-> 0]
  /\ resetAt = [l \in Sampled |-> 0]
  /\ now = 0
  /\ hooks = <<>>
  /\ sT = [t \in Threads |-> 0]
  /\ sResetAfter = [t \in Threads |-> 0]
  /\ sN = [t \in Threads |-> 0]
  /\ sret = [t \in Threads |-> TRUE]
  /\ first \in 0..2
  /\ thereafter \in 0..3

\* one goroutine checking one (level, message) and an invalid level, one check
\* after the other, while the clock advances
NextSamplerSeq ==
  \/ \E lvl \in {InfoLevel, noLevel} : check("t1", lvl)
  \/ chk("t1")
  \/ chkAdd("t1")
  \/ chkStore("t1")
  \/ chkCas("t1")
  \/ chkDecide("t1")
  \/ checkReturn("t1")
  \/ clockTick

SpecSamplerSeq == InitSampler /\ [][NextSamplerSeq]_vars

\* the sampler after one check of InfoLevel at time 0: the window is open, its
\* deadline one tick ahead, one check counted and reported to the hook
InitSamplerWin ==
  /\ InitWorker
  /\ InitPure
  /\ level = [i \in 1..MaxHandles |-> InfoLevel]
  /\ levelRef = [h \in 1..MaxHandles |-> 1]
  /\ formatter = [h \in 1..MaxHandles |-> "text"]
  /\ reportTimestamp = [h \in 1..MaxHandles |-> FALSE]
  /\ sampled = [h \in 1..MaxHandles |-> FALSE]
  /\ lastDerive = <<0, 0>>
  /\ mu = NoThread
  /\ cont = [t \in Threads |-> "idle"]
  /\ lh = [t \in Threads |-> 0]
  /\ llvl = [t \in Threads |-> InfoLevel]
  /\ cfgSnap = [t \in Threads |-> NoCfg]
  /\ seen = [t \in Threads |-> {}]
  /\ fmtd = [t \in Threads |-> NoCfg]
  /\ counter = [l \in Sampled |-> IF l = InfoLevel THEN 1 ELSE 0]
  /\ resetAt = [l \in Sampled |-> IF l = InfoLevel THEN Tick ELSE 0]
  /\ now = 0
  /\ first \in 0..2
  /\ thereafter \in 0..3
  /\ hooks = <<[lvl |-> InfoLevel, time |-> 0, n |-> 1,
                dec |-> IF first >= 1 \/ (thereafter # 0 /\ (1 - first) % thereafter = 0)
                          THEN "LogSampled" ELSE "LogDropped"]>>
  /\ sT = [t \in Threads |-> 0]
  /\ sResetAfter = [t \in Threads |-> 0]
  /\ sN = [t \in Threads |-> 0]
  /\ sret = [t \in Threads |-> TRUE]

\* goroutines checking one (level, message) at the same time inside the window
NextSamplerWin ==
  \E t \in Threads :
     \/ check(t, InfoLevel)
     \/ chk(t)
     \/ chkAdd(t)
     \/ chkDecide(t)
     \/ checkReturn(t)

SpecSamplerWin == InitSamplerWin /\ [][NextSamplerWin]_vars

\* goroutines checking one (level, message) at the same time while the clock
\* advances past the deadline of the window
NextSamplerRace ==
  \/ \E t \in Threads :
       \/ check(t, InfoLevel)
       \/ chk(t)
       \/ chkAdd(t)
       \/ chkStore(t)
       \/ chkCas(t)
       \/ chkDecide(t)
       \/ checkReturn(t)
  \/ clockTick

\* NewSamplerWithOptions(logger, Tick, 1, 0) after one check at time 0
InitSamplerRace == InitSamplerWin /\ first = 1 /\ thereafter = 0

SpecSamplerRace == InitSamplerRace /\ [][NextSamplerRace]_vars

\* one goroutine making log calls below the minimum level, at it and at
\* PanicLevel, through a plain handle and through a handle with a sampler; no
\* timestamps, so that every check gets the zero time
NextLog ==
  \/ WSelectSync("t1")
  \/ WSelectQueue
  \/ drainAll
  \/ write
  \/ writeThrough
  \/ flushBuffer
  \/ flushBufferEnd
  \/ \E f \in 0..1 : NewSampler("t1", 1, f, 0)
  \/ \E h \in 1..MaxHandles, lvl \in {DebugLevel, InfoLevel, PanicLevel} : Log("t1", h, lvl)
  \/ logConfig("t1")
  \/ chk("t1")
  \/ chkAdd("t1")
  \/ chkDecide("t1")
  \/ logSampled("t1")
  \/ logSubmit("t1")
  \/ blockSend("t1")
  \/ directWrite("t1")
  \/ logTail("t1")
  \/ logReturn("t1")
  \/ panicSync("t1")
  \/ syncRecv("t1")
  \/ syncReturn("t1")
  \/ panicRaise("t1")

SpecLog == Init /\ [][NextLog]_vars

\* one goroutine deriving handles, setting the minimum level through any of them
\* and making calls through any of them
NextLevel ==
  \/ WSelectQueue
  \/ drainAll
  \/ write
  \/ writeThrough
  \/ flushBuffer
  \/ flushBufferEnd
  \/ \E h \in 1..MaxHandles : With("t1", h)
  \/ \E h \in 1..MaxHandles : WithPrefix("t1", h, "p")
  \/ NewSampler("t1", 1, 1, 0)
  \/ \E h \in 1..MaxHandles, v \in {DebugLevel, ErrorLevel} : SetLevel("t1", h, v)
  \/ \E h \in 1..MaxHandles, lvl \in {DebugLevel, InfoLevel} : Log("t1", h, lvl)
  \/ logConfig("t1")
  \/ chk("t1")
  \/ chkAdd("t1")
  \/ chkDecide("t1")
  \/ logSampled("t1")
  \/ logSubmit("t1")
  \/ blockSend("t1")
  \/ directWrite("t1")
  \/ logTail("t1")
  \/ logReturn("t1")

SpecLevel == Init /\ [][NextLevel]_vars

\* one goroutine making InfoLevel calls through the logger while another calls
\* its configuration setters
NextConfig ==
  \/ WSelectQueue
  \/ drainAll
  \/ write
  \/ writeThrough
  \/ flushBuffer
  \/ flushBufferEnd
  \/ SetPrefix("t2", 1, "p")
  \/ SetFormatter("t2", 1, "json")
  \/ SetReportTimestamp("t2", 1, TRUE)
  \/ setStore("t2")
  \/ Log("t1", 1, InfoLevel)
  \/ logConfig("t1")
  \/ logSubmit("t1")
  \/ blockSend("t1")
  \/ directWrite("t1")
  \/ logTail("t1")
  \/ logReturn("t1")

SpecConfig == Init /\ [][NextConfig]_vars




\* ------------------------------------------------------ synchronous logger
\* a log call on a synchronous logger up to Logger.submit: getBuffer and the
\* formatting; l.worker == nil, so l.out.Write(b.B) is next
syncSubmit(t) ==
  /\ pc[t] = "sync_idle"
  /\ wpc = "absent"
  /\ nextBuf <= MaxBufs
  /\ nextBuf' = nextBuf + 1
  /\ owner' = [owner EXCEPT ![nextBuf] = t]
  /\ cur' = [cur EXCEPT ![t] = nextBuf]
  /\ pc' = [pc EXCEPT ![t] = "sw_lock"]
  /\ UNCHANGED <<wkVars2, handleVars, hcur, ret, snap, errChan, extVars, pureVars>>

\* syncWriter.Write: s.mu.Lock(), and the destination's Write is entered
syncWriterLock(t) ==
  /\ pc[t] = "sw_lock"
  /\ outMu = NoThread
  /\ outMu' = t
  /\ inWrite' = BeginWrite(t)
  /\ pc' = [pc EXCEPT ![t] = "sw_write"]
  /\ UNCHANGED <<strategy, chanVars, bufioVars, output, delivered, outErr, lifeVars, handleVars,
                 workerVars, cur, hcur, ret, snap, errChan, bufVars, poolVars, stopSnap, errVars,
                 extVars, bufs, encVars>>

\* the write of a synchronous logger that releases the buffer it still holds
syncWriterWrite_KeepsBuffer(t) ==
  /\ pc[t] = "sw_write"
  /\ inWrite' = EndWrite(t)
  /\ output' \in Outcomes(t, <<cur[t]>>)
  /\ delivered' = delivered \cup {cur[t]}
  /\ outMu' = NoThread
  /\ putBuffer(cur[t])
  /\ pc' = [pc EXCEPT ![t] = "sync_idle"]
  /\ UNCHANGED <<strategy, chanVars, bufioVars, outErr, lifeVars, handleVars,
                 workerVars, cur, hcur, ret, snap, errChan, bufVars, dropped, stopSnap, errVars,
                 extVars, bufs, encVars>>

\* syncWriter.Write: s.out.Write(p) returns, s.mu.Unlock(); Logger.submit:
\* putBuffer(b)
syncWriterWrite(t) ==
  /\ pc[t] = "sw_write"
  /\ inWrite' = EndWrite(t)
  /\ IF outErr # "nil"
       THEN UNCHANGED <<output, delivered>>
       ELSE /\ output' \in Outcomes(t, <<cur[t]>>)
            /\ delivered' = delivered \cup {cur[t]}
  /\ outMu' = NoThread
  /\ putBuffer(cur[t])
  /\ cur' = [cur EXCEPT ![t] = NoBuf]
  /\ pc' = [pc EXCEPT ![t] = "sync_idle"]
  /\ UNCHANGED <<strategy, chanVars, bufioVars, outErr, lifeVars, handleVars,
                 workerVars, hcur, ret, snap, errChan, bufVars, dropped, stopSnap, errVars,
                 extVars, bufs, encVars>>

\* an asynchronous logger with any overflow policy, or a synchronous logger:
\* log calls, syncs, derivations and closes
NextOwn ==
  \/ Next
  \/ \E t \in Threads :
       \/ syncSubmit(t)
       \/ syncWriterLock(t)
       \/ syncWriterWrite(t)

SpecOwn == (Init \/ InitSyncLogger) /\ [][NextOwn]_vars

\* NewSamplerWithOptions on a synchronous logger: the sampler and the new
\* Logger are made (fields, typedFields, worker, level and config copied, out
\* left nil), then logger.worker.refCount.Add(1) is reached with
\* logger.worker == nil: a nil pointer dereference, the call panics and the
\* new Logger is never returned
NewSamplerNoWorker(t) ==
  /\ pc[t] = "sync_idle"
  /\ wpc = "absent"
  /\ pc' = [pc EXCEPT ![t] = "panicked"]
  /\ UNCHANGED <<wkVars2, handleVars, cur, hcur, ret, snap, errChan, extVars, pureVars, bufVars>>

\* a synchronous logger: log calls and NewSamplerWithOptions, with a
\* destination that may refuse a Write
NextSyncSampler ==
  \/ \E e \in Errs : destFails(e)
  \/ destRecovers
  \/ \E t \in Threads :
       \/ syncSubmit(t)
       \/ syncWriterLock(t)
       \/ syncWriterWrite(t)
       \/ NewSamplerNoWorker(t)

SpecSyncSampler == InitSyncLogger /\ [][NextSyncSampler]_vars

\* ------------------------------------------------------------ buffer pool
\* putBuffer without b.Reset()
bufPoolPut_NoReset(t, b) ==
  /\ bufs[b].st = "held" /\ bufs[b].holder = t
  /\ bufs' = [bufs EXCEPT ![b] = IF bufs[b].cap > PoolCeiling
                                   THEN [@ EXCEPT !.st = "dropped", !.holder = NoThread]
                                   ELSE [@ EXCEPT !.st = "pooled", !.holder = NoThread]]
  /\ UNCHANGED <<sysVars, outMu, encVars>>

\* getBuffer: bufPool.Get() hands out a pooled buffer, or a new one from
\* bufPool.New (a sync.Pool may do that whatever it holds)
bufPoolGet(t) ==
  /\ \E b \in 1..MaxPoolBufs :
       \/ /\ bufs[b].st = "pooled"
          /\ bufs' = [bufs EXCEPT ![b] = [@ EXCEPT !.st = "held", !.holder = t]]
       \/ /\ bufs[b].st = "unborn"
          /\ \A c \in 1..(b - 1) : bufs[c].st # "unborn"
          /\ bufs' = [bufs EXCEPT ![b] = [st |-> "held", len |-> 0, cap |-> NewCap, holder |-> t]]
  /\ UNCHANGED <<sysVars, outMu, encVars>>

\* buffer.WriteString, WriteByte, Write: b.B = append(b.B, ...) with n units;
\* append reallocates when the capacity does not suffice, to the needed size
\* or to twice the old capacity
WriteString(t, b, n) ==
  /\ bufs[b].st = "held" /\ bufs[b].holder = t
  /\ bufs[b].len + n <= MaxLen
  /\ LET need == bufs[b].len + n IN
     \E c \in (IF need <= bufs[b].cap THEN {bufs[b].cap}
                ELSE {need, IF 2 * bufs[b].cap > need THEN 2 * bufs[b].cap ELSE need}) :
        bufs' = [bufs EXCEPT ![b] = [@ EXCEPT !.len = need, !.cap = c]]
  /\ UNCHANGED <<sysVars, outMu, encVars>>

\* putBuffer: if cap(b.B) > 64*1024 { return }; b.Reset(); bufPool.Put(b)
bufPoolPut(t, b) ==
  /\ bufs[b].st = "held" /\ bufs[b].holder = t
  /\ bufs' = [bufs EXCEPT ![b] = IF bufs[b].cap > PoolCeiling
                                   THEN [@ EXCEPT !.st = "dropped", !.holder = NoThread]
                                   ELSE [@ EXCEPT !.st = "pooled", !.len = 0, !.holder = NoThread]]
  /\ UNCHANGED <<sysVars, outMu, encVars>>

\* goroutines that acquire buffers, write into them and release them
NextPool ==
  \E t \in Threads :
     \/ bufPoolGet(t)
     \/ \E b \in 1..MaxPoolBufs, n \in 1..2 : WriteString(t, b, n)
     \/ \E b \in 1..MaxPoolBufs : bufPoolPut(t, b)

SpecPool == Init /\ [][NextPool]_vars


\* two goroutines calling the configuration setters of one logger
NextSetters ==
  \E t \in Threads :
     \/ \E p \in Prefixes : SetPrefix(t, 1, p)
     \/ \E f \in Formatters : SetFormatter(t, 1, f)
     \/ \E r \in BOOLEAN : SetReportTimestamp(t, 1, r)
     \/ setStore(t)

SpecSetters == Init /\ [][NextSetters]_vars

\* Sync and Close on the one handle of a worker, with records submitted.
NextSync ==
  \/ run
  \/ \E t \in Threads :
       \/ submit(t)
       \/ blockSend(t)
       \/ directWrite(t)
       \/ sync(t)
       \/ syncFlushed(t)
       \/ syncRecv(t)
       \/ syncReturn(t)
       \/ Close(t, 1)
       \/ closeDec(t)
       \/ stopUnregister(t)
       \/ stopClose(t)
       \/ stopWait(t)
       \/ closeReturn(t)

\* The worker goroutine keeps running (run has no blocking operation outside
\* its select), a select with a ready case takes it, and a sender waiting on
\* syncChan is received from when the worker comes back to its select again
\* and again.
FairSync ==
  /\ WF_vars(run)
  /\ \A t \in Threads :
       /\ SF_vars(WSelectSync(t))
       /\ WF_vars(syncFlushed(t))
       /\ WF_vars(syncRecv(t))

SpecSyncLive == Init /\ [][NextSync]_vars /\ FairSync

\* The registry: "t1" is inside newWorker, the worker goroutine started and
\* not yet registered, and the logger not yet returned to anybody.
InitRegistry ==
  /\ strategy \in Strategies
  /\ queue = <<>> /\ sendq = <<>> /\ enq = {}
  /\ bw = <<>> /\ bwErr = "nil"
  /\ output = <<>> /\ outErr = "nil" /\ delivered = {}
  /\ inWrite = [a \in Actors |-> "no"]
  /\ stopChan = FALSE /\ flushed = FALSE
  /\ refCount = 1
  /\ closed = [h \in 1..MaxHandles |-> FALSE]
  /\ nHandles = 0
  /\ prefix = [h \in 1..MaxHandles |-> ""]
  /\ workers = <<>>
  /\ wpc = "select" /\ wmode = "none" /\ wcur = NoBuf /\ wreq = NoThread
  /\ errChan = [t \in Threads |-> "none"]
  /\ pc = [t \in Threads |-> IF t = "t1" THEN "new_lock" ELSE "idle"]
  /\ cur = [t \in Threads |-> NoBuf]
  /\ hcur = [t \in Threads |-> 0]
  /\ ret = [t \in Threads |-> "none"]
  /\ snap = [t \in Threads |-> {}]
  /\ nextBuf = 1
  /\ owner = [b \in 1..MaxBufs |-> NoThread]
  /\ released = {} /\ dropped = {}
  /\ stopSnap = {}
  /\ lastErr = "nil" /\ diag = 0
  /\ InitLogger
  /\ InitPure

NextRegistry ==
  \/ run
  \/ \E t \in Threads :
       \/ newWorkerLock(t)
       \/ newWorkerRegister(t)
       \/ fatalOther(t)
       \/ Log(t, 1, FatalLevel)
       \/ logConfig(t)
       \/ logSubmit(t)
       \/ blockSend(t)
       \/ directWrite(t)
       \/ fatalLock(t)
       \/ flushAllWorkers(t)
       \/ syncRecv(t)
       \/ syncReturn(t)
       \/ flushAllUnlock(t)
       \/ exit(t)
       \/ Close(t, 1)
       \/ closeDec(t)
       \/ stopUnregister(t)
       \/ stopClose(t)
       \/ stopWait(t)
       \/ closeReturn(t)

\* The worker goroutine and a goroutine inside flushAllWorkers keep running,
\* and a goroutine that can have _workersMu takes it.  Every holder of the
\* lock takes it a bounded number of times, so weak fairness is enough.
FairRegistry ==
  /\ WF_vars(run)
  /\ \A t \in Threads :
       /\ WF_vars(WSelectSync(t))
       /\ WF_vars(flushAllWorkers(t))
       /\ WF_vars(syncRecv(t))
       /\ WF_vars(syncReturn(t))
       /\ WF_vars(flushAllUnlock(t))
       /\ WF_vars(newWorkerLock(t))
       /\ WF_vars(newWorkerRegister(t))
       /\ WF_vars(stopUnregister(t))

SpecRegistry == InitRegistry /\ [][NextRegistry]_vars /\ FairRegistry

\* The caller's timing: a call takes no time on the clock,
clockTickIdle ==
  /\ pc["t1"] = "idle"
  /\ clockTick

\* and every call but the last the bound on checks allows is made at least a
\* tick before MaxTime, the last one at MaxTime.
LogApart(t, h, lvl) ==
  /\ IF Len(hooks) < MaxChecks - 1 THEN now <= MaxTime - Tick ELSE now = MaxTime
  /\ Log(t, h, lvl)

\* one goroutine logging at InfoLevel through a handle with a sampler (first
\* 1, thereafter 0) while the clock advances; timestamp reporting starts
\* switched off and can be switched on
NextTicks ==
  \/ WSelectQueue
  \/ drainAll
  \/ write
  \/ writeThrough
  \/ flushBuffer
  \/ flushBufferEnd
  \/ clockTickIdle
  \/ NewSampler("t1", 1, 1, 0)
  \/ SetReportTimestamp("t1", 2, TRUE)
  \/ setStore("t1")
  \/ LogApart("t1", 2, InfoLevel)
  \/ logConfig("t1")
  \/ chk("t1")
  \/ chkAdd("t1")
  \/ chkStore("t1")
  \/ chkCas("t1")
  \/ chkDecide("t1")
  \/ logSampled("t1")
  \/ logSubmit("t1")
  \/ blockSend("t1")
  \/ directWrite("t1")
  \/ logTail("t1")
  \/ logReturn("t1")

SpecTicks == Init /\ [][NextTicks]_vars

\* ---------------------------------------------------------------- encoders
\* the key-value pairs a loop "for i := 0; i < len(fields); i += 2" with the
\* test i+1 < len(fields) visits: an odd last item is left out
RECURSIVE KeyVals(_)
KeyVals(fs) ==
  IF Len(fs) < 2 THEN <<>> ELSE <<<<fs[1], fs[2]>>>> \o KeyVals(SubSeq(fs, 3, Len(fs)))

\* typed fields as tokens
TypedMembers(ts) == [i \in 1..Len(ts) |-> <<ts[i], "typed">>]

\* Level.JSONField, Level.String
LevelName(l) ==
  CASE l = InfoLevel -> "info"
    [] l = ErrorLevel -> "error"
    [] OTHER -> "other"

\* the JSON encoders' state: what is in the buffer, and the flag `first`
JStart(t) ==
  IF t THEN [out |-> <<LBrace, <<"time", "t">>>>, first |-> FALSE]
       ELSE [out |-> <<LBrace>>, first |-> TRUE]

\* a member written with prependComma = !first; first = false
JAdd(s, m) == [out |-> s.out \o (IF s.first THEN <<m>> ELSE <<Comma, m>>), first |-> FALSE]

JAddIf(c, s, m) == IF c THEN JAdd(s, m) ELSE s

RECURSIVE JAddAll(_, _)
JAddAll(s, ms) == IF ms = <<>> THEN s ELSE JAddAll(JAdd(s, Head(ms)), Tail(ms))

\* the pre-encoded fragment written with its leading comma whatever `first` is
JAddPre_KeepComma(s, pre) ==
  IF Len(pre) > 0 THEN [out |-> s.out \o pre, first |-> FALSE] ELSE s

\* the pre-encoded fragment: preEncoded[1:] if first, preEncoded otherwise
JAddPre(s, pre) ==
  IF Len(pre) > 0
    THEN [out |-> s.out \o (IF s.first THEN Tail(pre) ELSE pre), first |-> FALSE]
    ELSE s

JEnd(s) == s.out \o <<RBrace, Newline>>

\* what With and WithFields append to the pre-encoded fragment:
\* encodeKeyValToJSON / encodeFieldToJSON with prependComma = true
RECURSIVE PreEncode(_)
PreEncode(ms) == IF ms = <<>> THEN <<>> ELSE <<Comma, Head(ms)>> \o PreEncode(Tail(ms))

\* formatLogJSON(b, l, cfg, level, msg, callFields, callTypedFields, ctxFields, t)
formatLogJSON(l, a) ==
  LET s1 == JStart(l.reportTimestamp)
      s2 == JAddIf(a.level # noLevel, s1, <<"level", LevelName(a.level)>>)
      s3 == JAddIf(l.prefix # "", s2, <<"prefix", l.prefix>>)
      s4 == JAddIf(a.msg # "", s3, <<"msg", a.msg>>)
      hasPreEncoded == Len(l.preEncodedJSON) > 0
                         \/ (Len(l.fields) = 0 /\ Len(l.typedFields) = 0)
      s5 == IF hasPreEncoded
              THEN JAddPre(s4, l.preEncodedJSON)
              ELSE JAddAll(JAddAll(s4, KeyVals(l.fields)), TypedMembers(l.typedFields))
      s6 == JAddAll(s5, KeyVals(a.kv))
      s7 == JAddAll(s6, TypedMembers(a.ctx))
      s8 == JAddAll(s7, TypedMembers(a.fs))
  IN JEnd(s8)

\* formatLogText, same parameters
formatLogText(l, a) ==
  (IF l.reportTimestamp THEN <<<<"time", "t">>>> ELSE <<>>)
    \o (IF a.level # noLevel THEN <<<<"level", LevelName(a.level)>>>> ELSE <<>>)
    \o (IF l.prefix # "" THEN <<<<"prefix", l.prefix>>>> ELSE <<>>)
    \o (IF a.msg # "" THEN <<<<"msg", a.msg>>>> ELSE <<>>)
    \o KeyVals(l.fields) \o KeyVals(a.kv)
    \o TypedMembers(l.typedFields) \o TypedMembers(a.ctx) \o TypedMembers(a.fs)
    \o <<Newline>>

\* the fast path of log, logFields, logContext, logContextFields
formatLog(l, a) == IF l.formatter = "json" THEN formatLogJSON(l, a) ELSE formatLogText(l, a)

\* formatJSON(b, e)
formatJSON(e) ==
  LET s1 == JStart(e.Time)
      s2 == JAddIf(e.Level # noLevel, s1, <<"level", LevelName(e.Level)>>)
      s3 == JAddIf(e.Caller # "", s2, <<"caller", e.Caller>>)
      s4 == JAddIf(e.Prefix # "", s3, <<"prefix", e.Prefix>>)
      s5 == JAddIf(e.Message # "", s4, <<"msg", e.Message>>)
      s6 == JAddPre(s5, e.PreEncodedJSON)
      s7 == JAddAll(s6, KeyVals(e.Fields))
      s8 == JAddAll(s7, TypedMembers(e.TypedFields))
  IN JEnd(s8)

\* formatText(b, e)
formatText(e) ==
  (IF e.Time THEN <<<<"time", "t">>>> ELSE <<>>)
    \o (IF e.Level # noLevel THEN <<<<"level", LevelName(e.Level)>>>> ELSE <<>>)
    \o (IF e.Caller # "" THEN <<<<"caller", e.Caller>>>> ELSE <<>>)
    \o (IF e.Prefix # "" THEN <<<<"prefix", e.Prefix>>>> ELSE <<>>)
    \o (IF e.Message # "" THEN <<<<"msg", e.Message>>>> ELSE <<>>)
    \o KeyVals(e.Fields) \o TypedMembers(e.TypedFields)
    \o (IF Len(e.Stack) > 0 THEN <<<<"stack", "pcs">>>> ELSE <<>>)
    \o <<Newline>>

\* formatEntry(b, e)
formatEntry(e) == IF e.Formatter = "json" THEN formatJSON(e) ELSE formatText(e)

\* putEntry: the reset before _entryPool.Put(e)
putEntry(e) ==
  [e EXCEPT !.Fields = <<>>, !.TypedFields = <<>>, !.PreEncodedJSON = <<>>, !.Stack = <<>>]

\* logWithEntry from e := getEntry() to the call of formatEntry: e as it is
\* when it is formatted.  a.site is what cfg.callerFormatter makes of the call site.
logWithEntry(e, l, a) ==
  LET e1 == [e EXCEPT !.Level = a.level, !.Time = l.reportTimestamp, !.Message = a.msg,
                      !.Prefix = l.prefix, !.Formatter = l.formatter]
      e2 == IF l.formatter = "json"
               /\ (Len(l.preEncodedJSON) > 0
                     \/ (Len(l.fields) = 0 /\ Len(l.typedFields) = 0))
              THEN [e1 EXCEPT !.PreEncodedJSON = l.preEncodedJSON]
              ELSE [e1 EXCEPT !.Fields = @ \o l.fields, !.TypedFields = @ \o l.typedFields]
      e3 == [e2 EXCEPT !.Fields = @ \o a.kv, !.TypedFields = @ \o a.ctx \o a.fs]
      hasErr == \/ a.level >= ErrorLevel
                \/ \E i \in 1..Len(a.kv) : a.kv[i] \in ErrValues
                \/ \E i \in 1..Len(a.ctx) : a.ctx[i] \in ErrFields
                \/ \E i \in 1..Len(a.fs) : a.fs[i] \in ErrFields
      e4 == IF l.reportStacktrace /\ hasErr THEN [e3 EXCEPT !.Stack = <<"pcs">>] ELSE e3
  IN IF l.reportCaller THEN [e4 EXCEPT !.Caller = a.site] ELSE e4

\* _entryPool.Put(e): the pool keeps e; what it held beyond MaxEntries is
\* dropped, as a collection drops pooled items
PoolAfterPut(pool, e) ==
  IF Cardinality(pool \cup {e}) <= MaxEntries THEN pool \cup {e} ELSE {e}

\* Logger.With(keyvals...) with at least one argument, as the encoders see it:
\* the fields appended, and under the JSON formatter the parent's fragment
\* extended by the new pairs
withKeyvals(kv) ==
  /\ Len(lg.fields) + Len(kv) <= MaxLoose
  /\ lg' = [lg EXCEPT !.fields = @ \o kv,
                      !.preEncodedJSON = IF lg.formatter = "json"
                                           THEN @ \o PreEncode(KeyVals(kv)) ELSE <<>>]
  /\ rec' = NoRec
  /\ UNCHANGED <<sysVars, bufs, outMu, entryPool>>

\* Logger.WithFields(fields...) with at least one field
withTypedFields(fs) ==
  /\ Len(lg.typedFields) + Len(fs) <= MaxTyped
  /\ lg' = [lg EXCEPT !.typedFields = @ \o fs,
                      !.preEncodedJSON = IF lg.formatter = "json"
                                           THEN @ \o PreEncode(TypedMembers(fs)) ELSE <<>>]
  /\ rec' = NoRec
  /\ UNCHANGED <<sysVars, bufs, outMu, entryPool>>

\* Logger.SetReportCaller(r)
setReportCaller(r) ==
  /\ lg.reportCaller # r
  /\ lg' = [lg EXCEPT !.reportCaller = r]
  /\ rec' = NoRec
  /\ UNCHANGED <<sysVars, bufs, outMu, entryPool>>

\* Logger.SetReportStacktrace(r)
setReportStacktrace(r) ==
  /\ lg.reportStacktrace # r
  /\ lg' = [lg EXCEPT !.reportStacktrace = r]
  /\ rec' = NoRec
  /\ UNCHANGED <<sysVars, bufs, outMu, entryPool>>

\* One log call on lg past the gate and the sampler (Log, LogFields, LogContext,
\* LogContextFields): the slow path if a report flag is set, with an Entry from
\* _entryPool (any pooled one, or a new one), else the fast path.  rec keeps,
\* beside the output, what each encoder makes of the same call: fast, slow with
\* a new Entry, slow0 with a new Entry and both report flags off.  The logger
\* of the recorded call is lg: every action that changes lg clears rec.
logCall(lvl, msg, kv, fs, ctx) ==
  LET a == [level |-> lvl, msg |-> msg, kv |-> kv, fs |-> fs, ctx |-> ctx, site |-> "c"]
      l0 == [lg EXCEPT !.reportCaller = FALSE, !.reportStacktrace = FALSE]
      slowPath == lg.reportStacktrace \/ lg.reportCaller
  IN /\ kv = <<>> \/ fs = <<>>
     /\ \E e0 \in entryPool \cup {NewEntry} :
          LET e == logWithEntry(e0, lg, a) IN
          /\ rec' = [path |-> IF slowPath THEN "slow" ELSE "fast",
                     a |-> a,
                     fast |-> formatLog(lg, a),
                     slow |-> formatEntry(logWithEntry(NewEntry, lg, a)),
                     slow0 |-> formatEntry(logWithEntry(NewEntry, l0, a)),
                     out |-> IF slowPath THEN formatEntry(e) ELSE formatLog(lg, a),
                     stack |-> slowPath /\ Len(e.Stack) > 0]
          /\ entryPool' = IF slowPath THEN PoolAfterPut(entryPool \ {e0}, putEntry(e))
                                      ELSE entryPool
     /\ UNCHANGED <<sysVars, bufs, outMu, lg>>

\* the field arguments of the calls: Log(kv...), LogFields(fs...),
\* LogContext(ctx, kv...), LogContextFields(ctx, fs...)
CallFields ==
  { [kv |-> <<>>, fs |-> <<>>, ctx |-> <<>>],
    [kv |-> <<"ck1", "cv1">>, fs |-> <<>>, ctx |-> <<>>],
    [kv |-> <<"ck1", "cerr">>, fs |-> <<>>, ctx |-> <<>>],
    [kv |-> <<"ck1", "cv1">>, fs |-> <<>>, ctx |-> <<"xt1">>],
    [kv |-> <<>>, fs |-> <<"ct1">>, ctx |-> <<"xt1">>],
    [kv |-> <<>>, fs |-> <<"cterr">>, ctx |-> <<>>],
    [kv |-> <<>>, fs |-> <<>>, ctx |-> <<"xterr">>] }

\* NewWithOptions for the encoder specifications: either formatter, with or
\* without Options.Fields
InitEncode ==
  /\ InitWorker /\ InitLogger
  /\ bufs = [b \in 1..MaxPoolBufs |-> NoBuffer]
  /\ outMu = NoThread
  /\ entryPool = {}
  /\ rec = NoRec
  /\ \E f \in Formatters, fl \in {<<>>, <<"lk1", "lv1">>} :
       lg = [NoLogger EXCEPT !.formatter = f, !.fields = fl]

\* one goroutine deriving loggers, switching the report flags, and logging with loosely-typed, typed and context fields
NextEncode ==
  \/ \E kv \in {<<"lk1", "lv1">>, <<"lk2">>, <<"lk3", "lerr">>} : withKeyvals(kv)
  \/ \E fs \in {<<"lt1">>, <<"lterr">>} : withTypedFields(fs)
  \/ \E r \in BOOLEAN : setReportCaller(r)
  \/ \E r \in BOOLEAN : setReportStacktrace(r)
  \/ \E lvl \in {InfoLevel, ErrorLevel}, c \in CallFields :
       logCall(lvl, "m", c.kv, c.fs, c.ctx)

SpecEncode == InitEncode /\ [][NextEncode]_vars

\* NewWithOptions with the JSON formatter: with or without prefix, timestamp
\* and Options.Fields
InitJSON ==
  /\ InitWorker /\ InitLogger
  /\ bufs = [b \in 1..MaxPoolBufs |-> NoBuffer]
  /\ outMu = NoThread
  /\ entryPool = {}
  /\ rec = NoRec
  /\ \E p \in {"", "p"}, ts \in BOOLEAN, fl \in {<<>>, <<"lk1", "lv1">>} :
       lg = [NoLogger EXCEPT !.formatter = "json", !.prefix = p,
                             !.reportTimestamp = ts, !.fields = fl]

\* one goroutine deriving JSON loggers, switching caller reporting, and logging
\* with and without level (Print), message and fields
NextJSON ==
  \/ \E kv \in {<<"lk1", "lv1">>, <<"lk2">>} : withKeyvals(kv)
  \/ withTypedFields(<<"lt1">>)
  \/ \E r \in BOOLEAN : setReportCaller(r)
  \/ \E lvl \in {InfoLevel, noLevel}, msg \in {"", "m"}, c \in CallFields :
       /\ c.ctx = <<>> \/ c.fs # <<>>
       /\ \A i \in 1..Len(c.kv) : c.kv[i] \notin ErrValues
       /\ \A i \in 1..Len(c.fs) : c.fs[i] \notin ErrFields
       /\ logCall(lvl, msg, c.kv, c.fs, c.ctx)

SpecJSON == InitJSON /\ [][NextJSON]_vars

\* ------------------------------------------------------------ value encoding
\* Go values as the JSON encoders tell them apart: kind is the case of the
\* type switch, lit the scalar, items the elements (of a map: the entries, each
\* with its key, in no order of the map's own)
Leaf(k, x) == [kind |-> k, key |-> "", lit |-> x, items |-> <<>>]

NonFinite == {"nan", "posinf", "neginf"}

Floats == {Leaf("float", x) : x \in {"finite"} \cup NonFinite}

Leaves == Floats \cup {Leaf("string", "s")}

KeyName(i) == CASE i = 1 -> "a" [] i = 2 -> "b" [] OTHER -> "c"

Composite(k, its) == [kind |-> k, key |-> "", lit |-> "", items |-> its]

\* []any of leaves
Slices == {Composite("slice", its) : its \in UNION {[1..n -> Leaves] : n \in 0..MaxItems}}

\* map[string]any of leaves
Maps ==
  {Composite("map", [i \in DOMAIN its |-> [its[i] EXCEPT !.key = KeyName(i)]]) :
     its \in UNION {[1..n -> Leaves] : n \in 0..MaxItems}}

\* an ObjectMarshaler that calls enc.AddFloat64 and an ArrayMarshaler that calls
\* enc.AppendFloat64 for each of its floats
Marshalers ==
  {Composite(k, [i \in DOMAIN its |-> [its[i] EXCEPT !.key = KeyName(i)]]) :
     k \in {"object", "array"}, its \in UNION {[1..n -> Floats] : n \in 1..MaxItems}}

\* the values logged: leaves, slices, maps, marshalers, and one level of
\* nesting (a map or a marshaler in a slice, a slice in a map)
Values ==
  Leaves \cup Slices \cup Maps \cup Marshalers
    \cup {Composite("slice", <<m>>) : m \in Maps \cup Marshalers}
    \cup {Composite("map", <<[sl EXCEPT !.key = "a"]>>) : sl \in Slices}

\* strconv.AppendFloat(b, f, 'f', -1, 64)
AppendFloat(x) ==
  CASE x = "nan" -> "NaN"
    [] x = "posinf" -> "+Inf"
    [] x = "neginf" -> "-Inf"
    [] OTHER -> "1.5"

\* JSONEncoder.AddFloat64(key, value) after addKey's comma
AddFloat64(key, x) == <<key, ":", AppendFloat(x)>>

\* JSONEncoder.AppendFloat64(value) after addSep's comma
AppendFloat64(x) == <<AppendFloat(x)>>

\* the entries of a map in the order `for k, v := range val` visits them: p is
\* the order of this iteration, any permutation
RangeOrder(its, p) ==
  LET idx == SelectSeq(p, LAMBDA i : i <= Len(its))
  IN [i \in 1..Len(its) |-> its[idx[i]]]

RECURSIVE appendJSONAny(_, _)
RECURSIVE appendElems(_, _, _, _)
\* the elements of a slice, map, object or array with their separators
appendElems(k, its, isFirst, p) ==
  IF Len(its) = 0 THEN <<>>
  ELSE LET h == its[1] IN
       (IF isFirst THEN <<>> ELSE <<",">>)
         \o (CASE k = "object" -> AddFloat64(h.key, h.lit)
               [] k = "array" -> AppendFloat64(h.lit)
               [] k = "map" -> <<h.key, ":">> \o appendJSONAny(h, p)
               [] OTHER -> appendJSONAny(h, p))
         \o appendElems(k, SubSeq(its, 2, Len(its)), FALSE, p)

\* appendJSONAny(b, v)
appendJSONAny(v, p) ==
  CASE v.kind = "float" -> IF v.lit \in NonFinite THEN <<"null">> ELSE <<AppendFloat(v.lit)>>
    [] v.kind = "string" -> <<v.lit>>
    [] v.kind = "slice" -> <<"[">> \o appendElems("slice", v.items, TRUE, p) \o <<"]">>
    [] v.kind = "map" -> <<"{">> \o appendElems("map", RangeOrder(v.items, p), TRUE, p) \o <<"}">>
    [] v.kind = "object" -> <<"{">> \o appendElems("object", v.items, TRUE, p) \o <<"}">>
    [] OTHER -> <<"[">> \o appendElems("array", v.items, TRUE, p) \o <<"]">>

\* encodeKeyValToJSON(b, "k", v, false)
encodeKeyValToJSON(v, p) == <<"k", ":">> \o appendJSONAny(v, p)

\* encodeFieldToJSON(b, f, timeFormat, false) of the field Any("k", v),
\* Object("k", v) or Array("k", v): the same sub-encoder as appendJSONAny
encodeFieldToJSON(v, p) == <<"k", ":">> \o appendJSONAny(v, p)

\* a value waiting to be encoded, as the value of a loosely-typed pair or as
\* a typed field
InitValue ==
  /\ InitWorker /\ InitLogger
  /\ bufs = [b \in 1..MaxPoolBufs |-> NoBuffer]
  /\ outMu = NoThread
  /\ entryPool = {}
  /\ lg = [NoLogger EXCEPT !.formatter = "json"]
  /\ \E route \in {"keyval", "field"}, v \in Values :
       rec = [path |-> "pending", route |-> route, v |-> v]

\* The value encoded twice: rec keeps both encodings.  Each encoding ranges
\* over its maps in an order of its own.
encodeValue ==
  /\ rec.path = "pending"
  /\ \E p1, p2 \in Permutations(1..MaxItems) :
       rec' = [path |-> "value", route |-> rec.route, v |-> rec.v,
               enc |-> IF rec.route = "keyval" THEN encodeKeyValToJSON(rec.v, p1)
                                               ELSE encodeFieldToJSON(rec.v, p1),
               again |-> IF rec.route = "keyval" THEN encodeKeyValToJSON(rec.v, p2)
                                                 ELSE encodeFieldToJSON(rec.v, p2)]
  /\ UNCHANGED <<sysVars, bufs, outMu, lg, entryPool>>

NextValue == encodeValue

SpecValue == InitValue /\ [][NextValue]_vars

\* ------------------------------------------------------------- properties
Count(b, seq) == Cardinality({i \in 1..Len(seq) : seq[i] = b})
OpenHandles == {h \in 1..nHandles : ~closed[h]}
Writers == {a \in Actors : inWrite[a] # "no"}

\* C1: under every overflow policy, two records submitted by the same goroutine
\* that both reach the destination stand there in the order of their submission
\* (records are numbered in submission order).
C1_SubmissionOrder ==
  \A i, j \in 1..Len(output) :
     (i < j /\ owner[output[i]] = owner[output[j]]) => output[i] < output[j]

\* C2: the destination is never inside Write for two goroutines at once.
C2_SingleWriter == Cardinality(Writers) <= 1

\* C3: when sync() returns the value it received on errChan, that value is the
\* result of the worker's flush: nil only if every record that had entered the
\* queue before the call has gone through the buffered writer into a Write on the
\* destination that succeeded (and, where only the worker writes, stands in the
\* destination's output), and otherwise the error the buffered writer holds.
C3_SyncReturn ==
  \A t \in Threads :
     pc[t] = "sync_ret" =>
        /\ ret[t] \in {"nil"} \cup Errs
        /\ ret[t] = "nil" =>
              /\ (snap[t] \cap enq) \subseteq delivered
              /\ strategy # "sync" => \A b \in snap[t] \cap enq : Count(b, output) = 1
        /\ ret[t] # "nil" => bwErr = ret[t]

C3_Witness ==
  \E t \in Threads :
     pc[t] = "sync_ret" /\ ret[t] = "nil" /\ Cardinality(snap[t] \cap enq) = MaxBufs

\* C4: under the drop policy no submit ever waits or writes; a submit that finds
\* the queue full leaves the queue alone and releases its buffer, and that record
\* never reaches the queue, the buffered writer or the destination; a submit that
\* finds room appends its record to the queue.
C4_DropState ==
  strategy = "drop" =>
     /\ \A t \in Threads : pc[t] \notin {"block_send", "parked", "direct_write"}
     /\ dropped \subseteq released
     /\ dropped \cap (enq \cup Range(bw) \cup Range(output) \cup delivered) = {}
     /\ \A b \in 1..(nextBuf - 1) : b \in enq \cup dropped

C4_DropStep ==
  (strategy = "drop" /\ nextBuf' = nextBuf + 1) =>
     /\ pc' = pc
     /\ IF Len(queue) < QueueCap
          THEN queue' = Append(queue, nextBuf) /\ dropped' = dropped
          ELSE /\ queue' = queue
               /\ dropped' = dropped \cup {nextBuf}
               /\ nextBuf \in released'

C4_DropPolicy == [](C4_DropState) /\ [][C4_DropStep]_vars

C4_Witness == strategy = "drop" /\ dropped # {} /\ output # <<>>

\* C5: under the sync policy, once sync() has returned from a running worker,
\* every record whose submit had returned before the call stands in the
\* destination exactly once.
C5_SyncPolicyNoLoss ==
  strategy = "sync" =>
     \A t \in Threads :
        pc[t] = "sync_ret" => \A b \in snap[t] : Count(b, output) = 1

\* C6: under the block policy a submit parked on the full queue is always
\* served: it is never left parked with the worker goroutine gone.
C6_ParkedSubmitServed ==
  \A t \in Threads : pc[t] = "parked" => wpc # "done"

\* C7: no record is abandoned: once the worker goroutine has terminated, no
\* record is left in the queue and no submitter is left waiting on it.
C7_NothingAbandoned ==
  wpc = "done" => (queue = <<>> /\ \A t \in Threads : pc[t] \notin {"block_send", "parked"})

\* C8: the reference count starts at 1 and always equals the number of open
\* handles (plus the Close calls that have marked their handle and not yet
\* decremented); a step that makes a handle adds exactly 1, WithPrefix makes no
\* handle and adds nothing, and stop() is entered only by the decrement to zero.
C8_Count ==
  refCount = Cardinality(OpenHandles) + Cardinality({t \in Threads : pc[t] = "close_dec"})

C8_Step ==
  /\ nHandles' # nHandles => (nHandles' = nHandles + 1 /\ refCount' = refCount + 1)
  /\ (nHandles' = nHandles /\ closed' = closed /\ \A t \in Threads : pc[t] # "close_dec")
        => refCount' = refCount
  /\ \A h \in 1..MaxHandles : closed[h] => closed'[h]
  /\ \A t \in Threads :
        (pc[t] # "stop_unreg" /\ pc'[t] = "stop_unreg") => (refCount = 1 /\ refCount' = 0)
  /\ (~stopChan /\ stopChan') => \E t \in Threads : pc[t] = "stop_close"

C9_LastClose ==
  \A t \in Threads :
     pc[t] = "close_ret" =>
        /\ workers = <<>>
        /\ wpc = "done" /\ flushed
        /\ stopSnap \subseteq delivered
        /\ strategy # "sync" => \A b \in stopSnap : Count(b, output) = 1
        /\ bw = <<>>

C9_Witness == \E t \in Threads : pc[t] = "close_ret" /\ stopSnap # {}

\* C10: a Close whose decrement leaves the count above zero returns at once and
\* changes nothing of the worker, its queue or the destination; as long as the
\* worker is registered and no Close is about to unregister it, it is running.
C10_Step ==
  \A t \in Threads :
     (pc[t] = "close_dec" /\ pc'[t] # "close_dec" /\ refCount > 1) =>
        /\ pc'[t] = "idle"
        /\ UNCHANGED <<stopChan, flushed, workers, queue, sendq, bw, output, delivered,
                       wpc, wmode>>

C10_State ==
  (workers = <<"w">> /\ \A t \in Threads : pc[t] # "stop_unreg") =>
     (refCount >= 1 /\ ~stopChan /\ ~flushed /\ wpc # "done" /\ wmode # "stop")

C10_NonLastClose == [](C10_State) /\ [][C10_Step]_vars

C10_Witness ==
  /\ Cardinality(OpenHandles) = 1 /\ nHandles = 2
  /\ refCount = 1
  /\ workers = <<"w">> /\ ~stopChan
  /\ queue # <<>>
  /\ output # <<>>
  /\ \A t \in Threads : pc[t] = "idle"

\* C11: flush-all, which a Fatal-level call runs before the process exits: when
\* its sync of the registered worker has returned, every record whose submit had
\* returned when flush-all reached that worker and that had entered the queue has
\* gone through a Write on the destination that succeeded (and stands in the
\* output where only the worker writes); the worker it waits for is running; and
\* no step of flush-all changes the reference count, the handles, the registry or
\* the worker's stop and flushed signals.
InFlushAll(t) ==
  \/ pc[t] \in {"flush_all", "flush_all_ret"}
  \/ (cont[t] = "flush_all_ret" /\ pc[t] \in {"sync_wait", "sync_recv", "sync_ret"})

C11_State ==
  \A t \in Threads :
     /\ InFlushAll(t) => mu = t
     /\ (InFlushAll(t) /\ workers # <<>>) => (~stopChan /\ ~flushed /\ wpc # "done")
     /\ (cont[t] = "flush_all_ret" /\ pc[t] \in {"sync_ret", "flush_all_ret"} /\ workers # <<>>) =>
           /\ (snap[t] \cap enq) \subseteq delivered
           /\ strategy # "sync" => \A b \in snap[t] \cap enq : Count(b, output) = 1
           /\ Range(queue) \cap snap[t] = {}
           /\ Range(bw) \cap snap[t] = {}

C11_Step ==
  \A t \in Threads :
     (InFlushAll(t) /\ pc'[t] # pc[t] /\ pc'[t] # "exited") =>
        /\ UNCHANGED <<refCount, closed, nHandles, workers, stopChan, flushed>>
        /\ (wpc' = "done") <=> (wpc = "done")

C11_FlushAll == [](C11_State) /\ [][C11_Step]_vars

C11_Witness ==
  \E t \in Threads :
     /\ cont[t] = "flush_all_ret" /\ pc[t] = "sync_ret"
     /\ workers # <<>>
     /\ Cardinality(snap[t] \cap enq) = MaxBufs

\* the check that opened the window the k-th hooked check falls in: a check
\* opens a window if it is the first, or if its time is at or after the end
\* (start plus one tick) of the window before
RECURSIVE WinStart(_)
WinStart(k) ==
  IF k <= 1 THEN 1
  ELSE LET w == WinStart(k - 1) IN
       IF hooks[k].time >= hooks[w].time + Tick THEN k ELSE w

\* what the k-th check of a window is to get
Allowed(k) == k <= first \/ (thereafter # 0 /\ (k - first) % thereafter = 0)

\* C16: sequential checks of one (level, message) at a valid level: the k-th check
\* of a window gets LogSampled and true exactly when k <= first, or thereafter is
\* nonzero and k - first is a multiple of thereafter, and LogDropped and false
\* otherwise; the hook is called once per check, with the decision check returns.
C16_State ==
  /\ \A k \in 1..Len(hooks) :
        hooks[k].dec = IF Allowed(k - WinStart(k) + 1) THEN "LogSampled" ELSE "LogDropped"
  /\ (pc["t1"] = "chk_ret" /\ llvl["t1"] \in Sampled) =>
        /\ hooks # <<>>
        /\ sret["t1"] = (hooks[Len(hooks)].dec = "LogSampled")

C16_Step ==
  IF pc["t1"] = "chk_decide" /\ pc'["t1"] # "chk_decide"
    THEN Len(hooks') = Len(hooks) + 1 /\ pc'["t1"] = "chk_ret"
    ELSE hooks' = hooks

C16_FirstThereafter == [](C16_State) /\ [][C16_Step]_vars

C16_Witness ==
  /\ first = 1 /\ thereafter = 3
  /\ Len(hooks) = MaxChecks
  /\ WinStart(MaxChecks) = 1
  /\ hooks[1].dec = "LogSampled" /\ hooks[2].dec = "LogDropped" /\ hooks[4].dec = "LogSampled"
  /\ pc["t1"] = "chk_ret" /\ ~sret["t1"]

\* the bucket's reset deadline and count after the first k hooked checks, as the
\* windows are to go: both start at zero
RECURSIVE Deadline(_)
Deadline(k) ==
  IF k = 0 THEN 0
  ELSE IF hooks[k].time >= Deadline(k - 1) THEN hooks[k].time + Tick ELSE Deadline(k - 1)

RECURSIVE CountAt(_)
CountAt(k) ==
  IF k = 0 THEN 0
  ELSE IF hooks[k].time >= Deadline(k - 1) THEN 1 ELSE CountAt(k - 1) + 1

\* C17: sequential checks on one bucket: a check at or after the bucket's reset
\* deadline counts as 1 and moves the deadline to its time plus one tick; a check
\* before the deadline counts one more than the check before it and leaves the
\* deadline alone; with first >= 1 a check that opens a window is allowed.
C17_Windows ==
  /\ \A k \in 1..Len(hooks) :
        /\ hooks[k].n = CountAt(k)
        /\ (first >= 1 /\ hooks[k].time >= Deadline(k - 1)) => hooks[k].dec = "LogSampled"
  /\ pc["t1"] \in {"idle", "chk", "chk_ret"} =>
        /\ counter[InfoLevel] = CountAt(Len(hooks))
        /\ resetAt[InfoLevel] = Deadline(Len(hooks))

C17_Witness ==
  /\ pc["t1"] = "chk_ret"
  /\ first = 1 /\ thereafter = 0
  /\ Len(hooks) = 4
  /\ hooks[2].n = 2 /\ hooks[2].dec = "LogDropped"
  /\ hooks[3].n = 1 /\ hooks[3].dec = "LogSampled"
  /\ hooks[4].n = 2
  /\ resetAt[InfoLevel] = hooks[3].time + Tick

\* C18: checks of one bucket that run at the same time and all find the deadline
\* ahead: no two get the same count, every decision is the one its count is to
\* get, and once they have all returned their counts are the consecutive numbers
\* a sequential run would have handed out, so as many are allowed as there.
C18_ExactInWindow ==
  /\ \A j, k \in 1..Len(hooks) : j # k => hooks[j].n # hooks[k].n
  /\ \A k \in 1..Len(hooks) :
        hooks[k].dec = IF Allowed(hooks[k].n) THEN "LogSampled" ELSE "LogDropped"
  /\ (\A t \in Threads : pc[t] = "idle") =>
        /\ {hooks[k].n : k \in 1..Len(hooks)} = 1..Len(hooks)
        /\ counter[InfoLevel] = Len(hooks)
        /\ Cardinality({k \in 1..Len(hooks) : hooks[k].dec = "LogSampled"})
             = Cardinality({k \in 1..Len(hooks) : Allowed(k)})

C18_Witness ==
  /\ \A t \in Threads : pc[t] = "idle"
  /\ Len(hooks) = MaxChecks
  /\ \E k \in 2..(MaxChecks - 1) : hooks[k].n > hooks[k + 1].n
  /\ first = 1 /\ thereafter = 3

\* C19: a check at a level outside DebugLevel..FatalLevel returns true in one
\* step that leaves every counter, every deadline and the hook alone, and never
\* gets to the counters.
C19_State ==
  \A t \in Threads :
     llvl[t] \notin Sampled =>
        /\ pc[t] \notin {"chk_add", "chk_store", "chk_cas", "chk_decide"}
        /\ pc[t] = "chk_ret" => sret[t]

C19_Step ==
  \A t \in Threads :
     (pc[t] = "chk" /\ llvl[t] \notin Sampled /\ pc'[t] # "chk") =>
        /\ pc'[t] = "chk_ret"
        /\ sret'[t]
        /\ UNCHANGED <<counter, resetAt, hooks>>

C19_InvalidLevelPasses == [](C19_State) /\ [][C19_Step]_vars

C19_Witness ==
  /\ pc["t1"] = "chk_ret" /\ llvl["t1"] = noLevel /\ sret["t1"]
  /\ first = 0 /\ thereafter = 0
  /\ Len(hooks) = 2 /\ hooks[2].dec = "LogDropped"

\* C12: a PanicLevel call that the level gate admits never returns to its caller:
\* it panics, and when it does its record has been submitted and the Sync that
\* followed has returned.
C12_PanicAlwaysPanics ==
  \A t \in Threads :
     /\ (pc[t] = "log_ret" /\ llvl[t] = PanicLevel) => cfgSnap[t] = NoCfg
     /\ pc[t] = "panic" => (llvl[t] = PanicLevel /\ fmtd[t] # NoCfg)

\* C20: the level gate comes first, the sampler second, the formatting third.
\* A call goes past the gate only if its level is not below the minimum, and a
\* call the gate turns away returns in that step, which touches no counter, no
\* deadline, no hook, no buffer, nothing of the queue and nothing of the
\* destination.  Counters change and the hook is called only inside a check of a
\* call that is past the gate.  A buffer is acquired only by a call that is past
\* the gate and, on a handle with a sampler, has been allowed; a call the sampler
\* turns away returns having formatted and submitted nothing.
InCheck(t) == pc[t] \in {"chk", "chk_add", "chk_store", "chk_cas", "chk_decide"}

C20_State ==
  \A t \in Threads :
     /\ InCheck(t) => (cfgSnap[t] # NoCfg /\ fmtd[t] = NoCfg)
     /\ pc[t] = "log_submit" => (cfgSnap[t] # NoCfg /\ (sampled[lh[t]] => sret[t]))
     /\ (pc[t] = "log_ret" /\ cfgSnap[t] = NoCfg) => fmtd[t] = NoCfg
     /\ (pc[t] = "log_ret" /\ sampled[lh[t]] /\ ~sret[t]) => fmtd[t] = NoCfg

C20_Step ==
  /\ \A t \in Threads :
        /\ (pc[t] = "idle" /\ pc'[t] = "log_cfg") => LevelOf(lh'[t]) <= llvl'[t]
        /\ (pc[t] = "idle" /\ pc'[t] = "log_ret") =>
              /\ LevelOf(lh'[t]) > llvl'[t]
              /\ UNCHANGED <<counter, resetAt, hooks, nextBuf, owner, released,
                             queue, sendq, enq, bw, output, delivered, inWrite>>
        /\ (pc[t] = "log_sampled" /\ pc'[t] = "log_ret") =>
              /\ ~sret[t]
              /\ UNCHANGED <<nextBuf, owner, released,
                             queue, sendq, enq, bw, output, delivered, inWrite>>
  /\ nextBuf' # nextBuf => \E t \in Threads : pc[t] = "log_submit" /\ pc'[t] # "log_submit"
  /\ (counter' # counter \/ resetAt' # resetAt \/ hooks' # hooks) =>
        \/ \E t \in Threads : InCheck(t) /\ pc'[t] # pc[t]
        \/ nHandles' # nHandles

C20_GatingOrder == [](C20_State) /\ [][C20_Step]_vars

C20_Witness ==
  /\ pc["t1"] = "log_ret" /\ llvl["t1"] = DebugLevel /\ cfgSnap["t1"] = NoCfg
  /\ sampled[lh["t1"]]
  /\ Len(hooks) >= 2 /\ hooks[Len(hooks)].dec = "LogDropped"
  /\ output # <<>>

\* C13: a derivation returns a handle distinct from its parent and leaves the
\* parent's prefix as it was: the last derivation did not hand back the handle
\* it was called on.
C13_DerivationIndependent ==
  lastDerive = <<0, 0>> \/ lastDerive[1] # lastDerive[2]

\* C14: a logger and the handles derived from it have one level indicator.  All
\* handles point to the same one, so that after a SetLevel through any handle
\* every handle reads the value set; and a call through any handle goes past the
\* gate exactly when its level is not below the value every handle reads.
C14_State ==
  \A h \in 1..nHandles : levelRef[h] = levelRef[1]

C14_Step ==
  /\ level' # level => \A h, g \in 1..nHandles : LevelOf(h)' = LevelOf(g)'
  /\ \A t \in Threads :
        /\ (pc[t] = "idle" /\ pc'[t] = "log_cfg") =>
              \A g \in 1..nHandles : level[levelRef[g]] <= llvl'[t]
        /\ (pc[t] = "idle" /\ pc'[t] = "log_ret") =>
              \A g \in 1..nHandles : level[levelRef[g]] > llvl'[t]

C14_SharedLevel == [](C14_State) /\ [][C14_Step]_vars

\* the minimum was raised to ErrorLevel and an InfoLevel call through a derived
\* handle was turned away at the gate
C14_Witness ==
  /\ nHandles = 2 /\ lastDerive = <<1, 2>>
  /\ level[levelRef[1]] = ErrorLevel
  /\ pc["t1"] = "log_ret" /\ lh["t1"] = 2 /\ llvl["t1"] = InfoLevel /\ cfgSnap["t1"] = NoCfg

\* C15: a log call formats its record from the one snapshot it loaded, and that
\* snapshot was the configuration of its handle at some moment of the call,
\* whatever the setters running beside it store in the meantime.
C15_OneSnapshot ==
  \A t \in Threads :
     (seen[t] # {} /\ fmtd[t] # NoCfg) => (fmtd[t] = cfgSnap[t] /\ fmtd[t] \in seen[t])

\* a call that loaded its snapshot before two setters stored theirs, and
\* formatted after them
C15_Witness ==
  \E t \in Threads :
     /\ pc[t] = "log_tail"
     /\ fmtd[t] = Cfg("", "text", FALSE)
     /\ CfgOf(1) = Cfg("p", "json", FALSE)
     /\ Cardinality(seen[t]) = 3

\* C21: every buffer the pool holds is empty and has a capacity of at most
\* 64 KiB, and the buffer getBuffer hands out is empty.
C21_State ==
  \A b \in 1..MaxPoolBufs :
     bufs[b].st = "pooled" => (bufs[b].len = 0 /\ bufs[b].cap <= PoolCeiling)

C21_Step ==
  \A b \in 1..MaxPoolBufs :
     (bufs[b].st # "held" /\ bufs'[b].st = "held") => bufs'[b].len = 0

C21_PoolEmptyBounded == [](C21_State) /\ [][C21_Step]_vars

\* a buffer that grew to the ceiling was pooled, one that grew beyond it was
\* not, and a pooled buffer that had been written to has been handed out again
C21_Witness ==
  /\ \E b \in 1..MaxPoolBufs : bufs[b].st = "pooled" /\ bufs[b].cap = PoolCeiling
  /\ \E b \in 1..MaxPoolBufs : bufs[b].st = "dropped" /\ bufs[b].cap > PoolCeiling
  /\ \E b \in 1..MaxPoolBufs : bufs[b].st = "held" /\ bufs[b].cap = PoolCeiling /\ bufs[b].len = 0

\* C22: a buffer a log call drew has exactly one owner at a time (the caller
\* that formats or writes it, the queue, the worker, or the pool it was released
\* to); it is released at most once; and once released it has either been
\* dropped by the drop policy or been through a Write call, and nobody holds it.
Holders(b) ==
  Cardinality({t \in Threads : cur[t] = b}) + Count(b, queue)
    + (IF wcur = b THEN 1 ELSE 0) + (IF b \in released THEN 1 ELSE 0)

C22_BufferOwnership ==
  /\ \A x \in released : x > 0
  /\ \A b \in 1..(nextBuf - 1) :
        /\ Holders(b) = 1
        /\ b \in released => (b \in dropped \/ b \in Range(bw) \/ b \in delivered)
        /\ b \in dropped => strategy = "drop"

\* under the sync policy one record went through the worker and one was written
\* by its caller, and both buffers are back in the pool
C22_Witness ==
  /\ strategy = "sync" /\ wpc # "absent"
  /\ released = {1, 2}
  /\ 1 \in enq /\ 2 \notin enq


\* C23: the output of a slow-path call is what the call's own arguments and
\* configuration give with a new Entry, whichever pooled Entry it drew: nothing
\* of an earlier call (caller string, fields, pre-encoded fragment, stack)
\* shows in it.
C23_NothingCarriedOver == rec.path = "slow" => rec.out = rec.slow


\* the place of a member in the order of the fields, by the origin of its key:
\* 0 for what is not a field
FieldOrder(k) ==
  CASE k \in {"lk1", "lv1", "lk2", "lk3", "lerr"} -> 1
    [] k \in {"ck1", "cv1", "cerr"} -> 2
    [] k \in {"lt1", "lterr"} -> 3
    [] k \in {"xt1", "xterr"} -> 4
    [] k \in {"ct1", "cterr"} -> 5
    [] OTHER -> 0

\* C24: in the output of every call, text or JSON, fast or slow path, the
\* fields stand in the order logger loosely-typed, call-site loosely-typed,
\* logger typed, context typed, call-site typed.
C24_FieldOrder ==
  rec.path # "none" =>
    \A i, j \in DOMAIN rec.out :
      (i < j /\ FieldOrder(rec.out[i][1]) > 0 /\ FieldOrder(rec.out[j][1]) > 0)
        => FieldOrder(rec.out[i][1]) <= FieldOrder(rec.out[j][1])


\* C25: for one logger state and one call, the fast-path encoder and the
\* slow-path encoder (the Entry as logWithEntry fills it, no caller string and
\* no stack) give the same output, in text and in JSON.
C25_FastEqualsSlow == rec.path # "none" => rec.fast = rec.slow0


\* an error-typed value among the fields of the recorded call: logger-attached,
\* context-extracted or call-site
ErrAmongFields ==
  \/ \E i \in 1..Len(lg.fields) : lg.fields[i] \in ErrValues
  \/ \E i \in 1..Len(lg.typedFields) : lg.typedFields[i] \in ErrFields
  \/ \E i \in 1..Len(rec.a.kv) : rec.a.kv[i] \in ErrValues
  \/ \E i \in 1..Len(rec.a.ctx) : rec.a.ctx[i] \in ErrFields
  \/ \E i \in 1..Len(rec.a.fs) : rec.a.fs[i] \in ErrFields

\* C30: a slow-path call captures a stack iff stack-trace reporting is on and
\* (its level is at or above ErrorLevel or an error-typed value is among its
\* fields)
C30_StackIff ==
  rec.path = "slow" =>
    (rec.stack <=> (lg.reportStacktrace /\ (rec.a.level >= ErrorLevel \/ ErrAmongFields)))


\* the place of a member among the top-level keys
KeyOrder(k) ==
  CASE k = "time" -> 1
    [] k = "level" -> 2
    [] k = "caller" -> 3
    [] k = "prefix" -> 4
    [] k = "msg" -> 5
    [] OTHER -> 6

HasKey(o, k) == \E i \in DOMAIN o : o[i][1] = k

\* a well-formed object: "{", members with exactly one comma between two of
\* them, "}" and the newline
WellFormedObject(o) ==
  /\ Len(o) >= 3
  /\ o[1] = LBrace /\ o[Len(o) - 1] = RBrace /\ o[Len(o)] = Newline
  /\ Len(o) = 3 \/ Len(o) % 2 = 0
  /\ \A i \in 2..(Len(o) - 2) :
       IF i % 2 = 0 THEN o[i] \notin {LBrace, RBrace, Comma, Newline} ELSE o[i] = Comma

\* the members of o in the order time, level, caller, prefix, msg, fields, each
\* top-level key at most once
KeysInOrder(o) ==
  \A i, j \in 2..(Len(o) - 2) :
    (i < j /\ i % 2 = 0 /\ j % 2 = 0) =>
      /\ KeyOrder(o[i][1]) <= KeyOrder(o[j][1])
      /\ KeyOrder(o[i][1]) < 6 => KeyOrder(o[i][1]) < KeyOrder(o[j][1])

\* the top-level keys of o are the present parts
KeysPresent(o, withCaller) ==
  /\ HasKey(o, "time") <=> lg.reportTimestamp
  /\ HasKey(o, "level") <=> rec.a.level # noLevel
  /\ HasKey(o, "caller") <=> withCaller
  /\ HasKey(o, "prefix") <=> lg.prefix # ""
  /\ HasKey(o, "msg") <=> rec.a.msg # ""

C27_NonFiniteNull ==
  rec.path = "value" =>
    \A i \in DOMAIN rec.enc : rec.enc[i] \notin {"NaN", "+Inf", "-Inf"}

\* C28: two encodings of one value are the same.
C28_Deterministic == rec.path = "value" => rec.enc = rec.again


\* the worker stands before the return of a w.bw.Write or w.bw.Flush that fails
WriteFails == wpc \in {"write", "write_through"} /\ (IF wpc = "write" THEN bwErr ELSE outErr) # "nil"

FlushFails == wpc \in {"flush", "flush_end"} /\ (IF wpc = "flush" THEN bwErr ELSE outErr) # "nil"

\* the error that Write or Flush returns
FailedWith == IF wpc \in {"write", "flush"} THEN bwErr ELSE outErr

C29_Step ==
  ((WriteFails \/ FlushFails) /\ wpc' # wpc) =>
    /\ lastErr' = FailedWith
    /\ diag' = IF lastErr # FailedWith THEN diag + 1 ELSE diag
    /\ WriteFails =>
         /\ released' = released \cup {wcur}
         /\ wcur \notin Range(queue')
         /\ bw' = bw
         /\ wpc' = "drain"
    /\ FlushFails =>
         /\ released' = released /\ queue' = queue /\ bw' = bw
         /\ wpc' = IF wmode = "stop" THEN "done" ELSE "select"

\* C29: when w.bw.Write or w.bw.Flush fails, the worker goes on with its loop
\* (it ends only on the stop signal), the buffer of a failed write is released
\* and is neither put back in the queue nor written again, and a diagnostic is
\* printed iff the error is not the one last reported.
C29_FailureHandled == [][C29_Step]_vars

\* one diagnostic after two failures with the same error: a buffer lost to a
\* failed write and a failed flush answered to Sync, the worker back at its
\* select
C29_Witness ==
  /\ diag = 1 /\ lastErr \in Errs
  /\ \E b \in released : b \notin Range(bw) \cup delivered \cup dropped
  /\ \E t \in Threads : errChan[t] \in Errs
  /\ wpc = "select"


\* t is inside IncCheckReset, or back from it, having loaded a deadline that
\* its time had reached
SawExpired(t) ==
  /\ pc[t] \in {"chk_store", "chk_cas", "chk_add", "chk_decide", "chk_ret"}
  /\ sResetAfter[t] <= sT[t]

\* t has its count
Counted(t) == pc[t] \in {"chk_decide", "chk_ret"}

C31_State ==
  \A t, u \in Threads :
    (t # u /\ SawExpired(t) /\ SawExpired(u) /\ sResetAfter[t] = sResetAfter[u]
       /\ Counted(t) /\ Counted(u))
      => /\ (sN[t] = 1) # (sN[u] = 1)
         /\ sN[t] >= 1 /\ sN[u] >= 1

C31_Step ==
  /\ \A t \in Threads :
       (pc[t] = "chk_cas" /\ pc'[t] # "chk_cas") =>
         IF resetAt[llvl[t]] = sResetAfter[t]
           THEN /\ resetAt' = [resetAt EXCEPT ![llvl[t]] = sT[t] + Tick]
                /\ sN'[t] = 1 /\ pc'[t] = "chk_decide"
           ELSE /\ resetAt' = resetAt /\ pc'[t] = "chk_add"
  /\ \A t \in Threads :
       (pc[t] = "chk_add" /\ pc'[t] # "chk_add" /\ SawExpired(t)) =>
         /\ counter'[llvl[t]] = counter[llvl[t]] + 1
         /\ sN'[t] = counter'[llvl[t]]
         /\ sN'[t] >= 2
  /\ resetAt' # resetAt =>
       \E t \in Threads : pc[t] = "chk_cas" /\ pc'[t] = "chk_decide"
                            /\ resetAt[llvl[t]] = sResetAfter[t]

\* C31: of the goroutines that loaded one expired deadline, exactly one swaps
\* it (to its own time plus the tick) and counts 1; each other one finds the
\* deadline changed, leaves it, and counts at least 2 by an atomic increment;
\* the deadline changes in no other step.
C31_OneWinner == [](C31_State) /\ [][C31_Step]_vars

\* two goroutines back from IncCheckReset on one expired deadline, the loser
\* with a later time than the winner
C31_Witness ==
  /\ pc["t1"] = "chk_ret" /\ pc["t2"] = "chk_ret"
  /\ sResetAfter["t1"] = Tick /\ sResetAfter["t2"] = Tick
  /\ sT["t1"] = Tick /\ sT["t2"] = Tick + 1
  /\ sN["t1"] = 1 /\ sN["t2"] >= 2
  /\ resetAt[InfoLevel] = Tick + Tick


\* how many members of o have the key k
Members(o, k) == Cardinality({i \in DOMAIN o : o[i][1] = k})

\* how many times the logger of the recorded call had the key k attached, as
\* the key of a loosely-typed pair or as a typed field
Attached(k) ==
  Cardinality({i \in DOMAIN lg.fields : i % 2 = 1 /\ i < Len(lg.fields) /\ lg.fields[i] = k})
    + Cardinality({i \in DOMAIN lg.typedFields : lg.typedFields[i] = k})

\* C32: a JSON record holds every field attached to its logger (complete
\* pairs and typed fields) exactly as often as it was attached.
C32_AttachedOnce ==
  (rec.path \in {"fast", "slow"} /\ lg.formatter = "json"
     /\ \A i \in DOMAIN lg.fields : lg.fields[i] # "lk2")
    => \A k \in {"lk1", "lk3", "lt1", "lterr"} : Members(rec.out, k) = Attached(k)


\* C33: whenever the worker waits in its select with the queue empty, the
\* buffered writer is empty and every buffer that was in the queue has gone
\* through a Write on the destination (and, where only the worker writes,
\* stands in the destination's output once).
C33_FlushedBeforeWaiting ==
  (wpc = "select" /\ queue = <<>>) =>
     /\ bw = <<>>
     /\ enq \subseteq delivered
     /\ strategy # "sync" => \A b \in enq : Count(b, output) = 1

\* the worker back at its select after batches that no Sync or Close asked
\* it to flush
C33_Witness ==
  /\ wpc = "select" /\ queue = <<>>
  /\ enq = 1..MaxBufs /\ delivered = enq
  /\ ~stopChan
  /\ \A t \in Threads : pc[t] = "idle" /\ errChan[t] = "none"


\* the worker released b without its bytes having gone into the buffered
\* writer or to the destination
Lost(b) == b \in released /\ b \notin (delivered \cup Range(bw) \cup dropped)

\* C34: a failure is recovered from: a buffer that worker.write takes up
\* while the destination accepts writes is not lost, whatever failed before.
C34_Step ==
  (wpc = "write" /\ wcur' = NoBuf /\ outErr = "nil") =>
     LET b == wcur IN
       ~(b \in released' /\ b \notin (delivered' \cup Range(bw') \cup dropped'))

C34_RecoversAfterFailure == [][C34_Step]_vars


\* how many attributes of the configuration of handle 1 a step changes
Changed ==
  (IF prefix'[1] # prefix[1] THEN 1 ELSE 0)
    + (IF formatter'[1] # formatter[1] THEN 1 ELSE 0)
    + (IF reportTimestamp'[1] # reportTimestamp[1] THEN 1 ELSE 0)

\* C35: no update is lost: the Store of a setter changes its own attribute
\* and leaves every other attribute as the setters before it left them.
C35_NoLostUpdate == [][Changed <= 1]_vars


\* C36: worker.stop runs at most once: no Close finds the stop channel closed
\* when it closes it.
C36_StopOnce == \A t \in Threads : pc[t] # "panicked"


\* C37: worker.sync always returns: a caller that has entered the select of
\* sync leaves it, with the worker's answer or, once the worker has closed
\* flushed after its final flush, with nil.
C37_Returned(t) == pc[t] \in {"sync_ret", "sync_ret_stopped"}

C37_SyncReturns ==
  /\ [](\A t \in Threads : pc[t] = "sync_ret_stopped" => flushed /\ wpc = "done" /\ ret[t] = "nil")
  /\ \A t \in Threads : (pc[t] = "sync_wait") ~> C37_Returned(t)

\* a Sync that was waiting when Close stopped the worker has returned nil
C37_Witness ==
  \E t \in Threads :
    /\ pc[t] = "sync_ret_stopped"
    /\ ret[t] = "nil"
    /\ stopChan /\ flushed
    /\ bw = <<>>


\* C38: the registry holds each worker at most once and only workers whose
\* stop channel is open; flushAllWorkers, which holds _workersMu over every
\* sync, returns, and neither a constructor nor a Close waits for the lock
\* forever.
C38_InFlushAll(t) == pc[t] \in {"flush_all", "sync_wait", "sync_recv", "sync_ret", "flush_all_ret"}

C38_Registry ==
  /\ [](Count("w", workers) <= 1 /\ ("w" \in Range(workers) => ~stopChan))
  /\ \A t \in Threads :
       /\ C38_InFlushAll(t) ~> (pc[t] \in {"fatal_exit", "exited"})
       /\ (pc[t] \in {"new_lock", "stop_unreg"}) ~> (pc[t] \notin {"new_lock", "stop_unreg"})

\* flushAllWorkers has returned after the sync of the registered worker
\* while a Close waits for the lock it held
C38_Witness ==
  \E t, u \in Threads :
    /\ pc[t] = "flush_all_ret"
    /\ mu = t
    /\ workers = <<"w">>
    /\ pc[u] = "stop_unreg"


\* C39: the window of the sampler follows the time of the calls with timestamp
\* reporting off too: the MaxChecks-th call through the sampled handle, made
\* at MaxTime when every call before it was made at least a tick earlier, is
\* the first of a new window and, its ReportTimestamp being off (check was
\* handed the zero time), it is allowed whatever was dropped before.
C39_WindowByCallTime ==
  (Len(hooks) = MaxChecks /\ hooks[MaxChecks].time = ZeroTime) =>
     hooks[MaxChecks].dec = "LogSampled"

\* the same for a call whose ReportTimestamp is on
C39_WithTimestamps ==
  (Len(hooks) = MaxChecks /\ hooks[MaxChecks].time # ZeroTime) =>
     hooks[MaxChecks].dec = "LogSampled"


\* C40: NewSamplerWithOptions on a synchronous logger returns: no call on a
\* logger without a worker ends in a panic.
C40_SamplerOnSync == \A t \in Threads : ~(wpc = "absent" /\ pc[t] = "panicked")

====
